---- MODULE Spec2Model ----
(***************************************************************************)
(* A model of the lint engine of augentic/lints: the manifest override     *)
(* configuration (src/src/config.rs), the Linter's output filter           *)
(* (src/src/lib.rs), the diagnostics engine with its suppression           *)
(* directives (src/src/diagnostics.rs), and the handler analysis and the   *)
(* language server backend of src/.old/src.                                *)
(*                                                                         *)
(* The module holds several state machines over one set of variables; each *)
(* specification moves its own variables and leaves the others idle:       *)
(*   SpecConfig    the manifest tables, merge and effective_level          *)
(*   SpecFilter    analyze's retain followed by Linter::filter_diagnostics *)
(*   SpecSuppress  should_ignore_diagnostic over parsed directives         *)
(*   SpecAnalyze   DiagnosticsEngine::analyze over source text             *)
(*   SpecClassify  is_inside_string_literal_at_offset                      *)
(*   SpecReconcile check_handler_issues over one impl block                *)
(*   SpecBackend   the document handlers of the language server            *)
(*   SpecBatch     the parallel lint of the files of a run                 *)
(*   SpecRun       main: the manifest, the lint, the output and the exit   *)
(*   SpecExtract   extract_impl_block                                      *)
(*   SpecOffset    calculate_byte_offset                                   *)
(*   SpecLinter    Linter::lint_str with a full LintConfig                 *)
(*   SpecCooperative  the document handlers on one executor thread        *)
(***************************************************************************)
EXTENDS Integers, Sequences, FiniteSets, TLC

VARIABLES
    \* ---- SpecConfig: CargoLintConfig values (config.rs:37-50)
    workspace,        \* the config merged into (self of merge / effective_level)
    crate_level,      \* the config merged on top (other)
    base,             \* workspace as it was when merge was called
    pc,               \* "load" while the tables are read, "merged" after merge
    resolved,         \* the last effective_level call and its result
    \* ---- SpecFilter: Linter (lib.rs:70-73) and one diagnostics vector
    cargo_overrides,  \* LintConfig.cargo_overrides
    raw,              \* the vector analyze has built before its retain
    retained,         \* the vector analyze returns
    filtered,         \* the vector filter_diagnostics returns
    \* ---- SpecSuppress: one call of should_ignore_diagnostic
    directives,       \* the parsed directive list
    ignored,          \* the last call and its result
    \* ---- SpecAnalyze: one call of DiagnosticsEngine::analyze
    content,          \* the source text, a sequence of text units
    analysis,         \* the call's path extension and returned vector
    \* ---- SpecClassify: one call of is_inside_string_literal_at_offset
    scanned,          \* the content given to the classifier
    inside,           \* the call's byte offset and result
    \* ---- SpecReconcile: one call of check_handler_issues (.old/src/llm.rs)
    block,            \* the impl block: its content, declared bounds and header line
    issues,           \* the vector check_handler_issues returns
    \* ---- SpecBackend: QwasrBackend (.old/src/backend.rs) and one document
    client,           \* the language client: document open? last version sent
    documents,        \* the document's entry: NoValue or Some(DocumentState)
    handlers,         \* the handler tasks, in order of arrival
    published,        \* the publish_diagnostics notifications sent so far
    \* ---- SpecBatch: the parallel lint of main (main.rs:214-224)
    files,            \* the files of the run: readable?, extension, content
    semantic_analyzer,  \* the engine's semantic analyzer
    threads,          \* the worker threads: file, position, locals of analyze
    outcomes,         \* per file, what lint_file returned
    reported,         \* the files whose error was printed, in order
    results,           \* NoValue, or Some(the collected vector)
    \* ---- SpecRun: main of the command-line linter (main.rs:140-319)
    manifest,         \* the manifest found for the run and its lint tables
    run,               \* main: its stage and what it has computed
    \* ---- SpecExtract: one call of extract_impl_block (.old/src/llm.rs)
    source,           \* the content a block is extracted from
    extracted,         \* the call's header line and the block returned
    \* ---- SpecOffset: one call of calculate_byte_offset
    body,             \* the content an offset is calculated in
    located,           \* the call's line, column and result
    \* ---- SpecLinter: one call of Linter::lint_str (lib.rs:93-98)
    linter,           \* the Linter's LintConfig
    linted,            \* the vector analyze returned and what lint_str returns
    \* ---- SpecCooperative: the backend on one executor thread
    blocked           \* 0, or the task that keeps the thread in a lock call

vars == <<workspace, crate_level, base, pc, resolved,
          cargo_overrides, raw, retained, filtered,
          directives, ignored, content, analysis,
          scanned, inside,
          block, issues,
          client, documents, handlers, published,
          files, semantic_analyzer, threads, outcomes, reported, results,
          manifest, run,
          source, extracted,
          body, located,
          linter, linted,
          blocked>>

configVars   == <<workspace, crate_level, base, pc, resolved>>
filterVars   == <<cargo_overrides, raw, retained, filtered>>
suppressVars == <<directives, ignored>>
analyzeVars  == <<content, analysis>>
classifyVars == <<scanned, inside>>
reconcileVars == <<block, issues>>
backendVars == <<client, documents, handlers, published>>
batchVars == <<files, semantic_analyzer, threads, outcomes, reported, results>>
runVars == <<manifest, run>>
extractVars == <<source, extracted>>
offsetVars == <<body, located>>
linterVars == <<linter, linted>>
coopVars == <<blocked>>

\* Option::None, and the marker of a result not computed yet.
None == "None"
NotYet == "NotYet"

(***************************************************************************)
(* Rule metadata: rules.rs, constraints.rs                                 *)
(***************************************************************************)

\* RuleSeverity with its derived ordering (Hint = 0 .. Error = 3).
RuleSeverity == {"Hint", "Info", "Warning", "Error"}

SeverityRank(s) ==
    CASE s = "Hint" -> 0
      [] s = "Info" -> 1
      [] s = "Warning" -> 2
      [] s = "Error" -> 3

\* The RuleCategory values the modelled rules belong to.
RuleCategory == {"Handler", "Error", "Wasm"}

\* LintLevel, the manifest's level names.
LintLevel == {"allow", "warn", "deny", "forbid"}

\* LintLevel::to_severity: allow has no severity (the diagnostic is dropped),
\* every other level rewrites the severity.
to_severity(level) ==
    CASE level = "allow" -> None
      [] level = "warn" -> "Warning"
      [] level = "deny" -> "Error"
      [] level = "forbid" -> "Error"

\* LintLevel::from_str on a manifest value.
LintLevelFromStr(s) == IF s \in LintLevel THEN s ELSE None

\* RuleCategory::from_key on a manifest key.
RuleCategoryFromKey(key) ==
    CASE key = "error" -> "Error"
      [] key = "wasm" -> "Wasm"
      [] key = "handler" -> "Handler"
      [] OTHER -> None

\* The rule ids the configuration and the filter are exercised on.
RuleIds == {"error_generic_unwrap", "wasm_std_fs"}

(***************************************************************************)
(* CargoLintConfig: config.rs                                              *)
(***************************************************************************)

\* A HashMap is a function on its key set; EmptyMap has no key.
EmptyMap == [k \in {} |-> None]

\* CargoLintConfig::default().
DefaultConfig == [all |-> None, categories |-> EmptyMap, rules |-> EmptyMap]

\* HashMap::insert.
MapInsert(m, k, v) == [x \in (DOMAIN m) \cup {k} |-> IF x = k THEN v ELSE m[x]]

\* Mutant of effective_level: the category entry is consulted before the
\* rule entry.
effective_level_category_first(cfg, rule_id, category) ==
    IF category \in DOMAIN cfg.categories THEN cfg.categories[category]
    ELSE IF rule_id \in DOMAIN cfg.rules THEN cfg.rules[rule_id]
    ELSE cfg.all

\* CargoLintConfig::effective_level.
effective_level(cfg, rule_id, category) ==
    IF rule_id \in DOMAIN cfg.rules THEN cfg.rules[rule_id]
    ELSE IF category \in DOMAIN cfg.categories THEN cfg.categories[category]
    ELSE cfg.all

\* Mutant of merge: an entry already present in self is kept.
merge_keep_existing(self, other) ==
    [all |-> IF other.all # None THEN other.all ELSE self.all,
     categories |-> [k \in (DOMAIN self.categories) \cup (DOMAIN other.categories) |->
                        IF k \in DOMAIN self.categories THEN self.categories[k]
                        ELSE other.categories[k]],
     rules |-> [k \in (DOMAIN self.rules) \cup (DOMAIN other.rules) |->
                        IF k \in DOMAIN self.rules THEN self.rules[k]
                        ELSE other.rules[k]]]

\* A merge that takes the global level of other as it is, set or not.
merge_all_replaced(self, other) ==
    [all |-> other.all,
     categories |-> [k \in (DOMAIN self.categories) \cup (DOMAIN other.categories) |->
                        IF k \in DOMAIN other.categories THEN other.categories[k]
                        ELSE self.categories[k]],
     rules |-> [k \in (DOMAIN self.rules) \cup (DOMAIN other.rules) |->
                        IF k \in DOMAIN other.rules THEN other.rules[k]
                        ELSE self.rules[k]]]

\* The insert loop of merge over one map: every entry of other is inserted
\* into self.
InsertAll(self_map, other_map) ==
    [k \in (DOMAIN self_map) \cup (DOMAIN other_map) |->
        IF k \in DOMAIN other_map THEN other_map[k] ELSE self_map[k]]

\* CargoLintConfig::merge: the value of self after self.merge(other).
merge(self, other) ==
    [all |-> IF other.all # None THEN other.all ELSE self.all,
     categories |-> InsertAll(self.categories, other.categories),
     rules |-> InsertAll(self.rules, other.rules)]

\* CargoLintConfig::is_empty.
is_empty(cfg) ==
    cfg.all = None /\ DOMAIN cfg.categories = {} /\ DOMAIN cfg.rules = {}

\* One iteration of merge_toml_table's loop: a value that is no level is
\* skipped, the key "all" sets the supercategory, a category key sets the
\* category, any other key is taken as a rule id.
merge_toml_entry(cfg, key, value) ==
    LET level == LintLevelFromStr(value) IN
    IF level = None THEN cfg
    ELSE IF key = "all" THEN [cfg EXCEPT !.all = level]
    ELSE IF RuleCategoryFromKey(key) # None
         THEN [cfg EXCEPT !.categories = MapInsert(@, RuleCategoryFromKey(key), level)]
    ELSE [cfg EXCEPT !.rules = MapInsert(@, key, level)]

\* The number of overrides a config holds.
Entries(cfg) ==
    (IF cfg.all = None THEN 0 ELSE 1)
    + Cardinality(DOMAIN cfg.categories) + Cardinality(DOMAIN cfg.rules)

\* Bound: the overrides the two manifest tables hold together.
MaxEntries == 3

\* The keys and values a manifest table is read with.
TomlKeys == {"all", "error", "wasm"} \cup RuleIds
TomlValues == LintLevel \cup {"off"}

\* Every config with at most n overrides.
ConfigsUpTo(n) ==
    {c \in [all : LintLevel \cup {None},
            categories : UNION {[ks -> LintLevel] : ks \in SUBSET {"Error", "Wasm"}},
            rules : UNION {[ks -> LintLevel] : ks \in SUBSET RuleIds}] :
        Entries(c) <= n}

NoQuery == [rule_id |-> None, category |-> None, level |-> NotYet, merged |-> FALSE]

\* merge_toml_table inserts one entry of a lint table into the config named
\* workspace.
MergeTomlWorkspace(key, value) ==
    /\ pc = "load"
    /\ resolved = NoQuery
    /\ Entries(merge_toml_entry(workspace, key, value)) + Entries(crate_level) <= MaxEntries
    /\ workspace' = merge_toml_entry(workspace, key, value)
    /\ UNCHANGED <<crate_level, base, pc, resolved>>
    /\ UNCHANGED <<filterVars, suppressVars, analyzeVars, classifyVars, reconcileVars, backendVars, batchVars, runVars, extractVars, offsetVars, linterVars, coopVars>>

\* merge_toml_table inserts one entry of a lint table into the config named
\* crate_level.
MergeTomlCrate(key, value) ==
    /\ pc = "load"
    /\ resolved = NoQuery
    /\ Entries(workspace) + Entries(merge_toml_entry(crate_level, key, value)) <= MaxEntries
    /\ crate_level' = merge_toml_entry(crate_level, key, value)
    /\ UNCHANGED <<workspace, base, pc, resolved>>
    /\ UNCHANGED <<filterVars, suppressVars, analyzeVars, classifyVars, reconcileVars, backendVars, batchVars, runVars, extractVars, offsetVars, linterVars, coopVars>>

\* workspace.merge(&crate_level).
Merge ==
    /\ pc = "load"
    /\ resolved = NoQuery
    /\ workspace' = merge(workspace, crate_level)
    /\ base' = workspace
    /\ pc' = "merged"
    /\ UNCHANGED <<crate_level, resolved>>
    /\ UNCHANGED <<filterVars, suppressVars, analyzeVars, classifyVars, reconcileVars, backendVars, batchVars, runVars, extractVars, offsetVars, linterVars, coopVars>>

\* workspace.effective_level(rule_id, category).
EffectiveLevel(rule_id, category) ==
    /\ pc \in {"load", "merged"}
    /\ resolved = NoQuery
    /\ resolved' = [rule_id |-> rule_id, category |-> category,
                    level |-> effective_level(workspace, rule_id, category),
                    merged |-> (pc = "merged")]
    /\ UNCHANGED <<workspace, crate_level, base, pc>>
    /\ UNCHANGED <<filterVars, suppressVars, analyzeVars, classifyVars, reconcileVars, backendVars, batchVars, runVars, extractVars, offsetVars, linterVars, coopVars>>

NextConfig ==
    \/ \E key \in TomlKeys, value \in TomlValues : MergeTomlWorkspace(key, value)
    \/ \E key \in TomlKeys, value \in TomlValues : MergeTomlCrate(key, value)
    \/ Merge
    \/ \E rule_id \in RuleIds, category \in {"Error", "Wasm"} :
            EffectiveLevel(rule_id, category)


(***************************************************************************)
(* Suppression directives: diagnostics.rs:12-97                            *)
(***************************************************************************)

\* The rule names a directive's argument list is written with.
DirectiveNames == {"error_generic_unwrap", "ERROR_GENERIC_UNWRAP", "wasm_std_fs"}

\* str::to_lowercase on the names the model uses.
to_lowercase(s) ==
    CASE s = "ERROR_GENERIC_UNWRAP" -> "error_generic_unwrap"
      [] OTHER -> s

\* Option<HashSet<String>>: <<>> is None (every rule), <<S>> is Some(S).
AllRules == <<>>
SomeRules(S) == <<S>>

\* IgnoreDirective { line, is_file_level, rules }.
IgnoreDirective(line, is_file_level, rules) ==
    [line |-> line, is_file_level |-> is_file_level, rules |-> rules]

\* IgnoreDirective::allows.
allows(directive, rule_id) ==
    IF directive.rules = AllRules THEN TRUE
    ELSE rule_id \in directive.rules[1] \/ to_lowercase(rule_id) \in directive.rules[1]

\* The number of lines after a line-level directive that it covers.
AttributeWindow == 10

\* Mutant of DirectiveApplies: a directive also covers its own line.
DirectiveAppliesSameLine(directive, diagnostic_line, rule_id) ==
    \/ directive.is_file_level /\ allows(directive, rule_id)
    \/ /\ ~directive.is_file_level
       /\ directive.line <= diagnostic_line
       /\ diagnostic_line <= directive.line + AttributeWindow
       /\ allows(directive, rule_id)

\* Mutant of DirectiveApplies: the window is one line longer.
DirectiveAppliesLongWindow(directive, diagnostic_line, rule_id) ==
    \/ directive.is_file_level /\ allows(directive, rule_id)
    \/ /\ ~directive.is_file_level
       /\ directive.line < diagnostic_line
       /\ diagnostic_line <= directive.line + AttributeWindow + 1
       /\ allows(directive, rule_id)

\* The body of should_ignore_diagnostic's loop: the two tests that return
\* true for one directive.
DirectiveApplies(directive, diagnostic_line, rule_id) ==
    \/ directive.is_file_level /\ allows(directive, rule_id)
    \/ /\ ~directive.is_file_level
       /\ directive.line < diagnostic_line
       /\ diagnostic_line <= directive.line + AttributeWindow
       /\ allows(directive, rule_id)

\* should_ignore_diagnostic: true at the first directive that applies, false
\* when the loop ends.
should_ignore_diagnostic(diagnostic_line, rule_id, dirs) ==
    \E i \in 1..Len(dirs) : DirectiveApplies(dirs[i], diagnostic_line, rule_id)

(***************************************************************************)
(* Diagnostics and the Linter's filter: diagnostics.rs:99-131, lib.rs      *)
(***************************************************************************)

\* Option<String>.
Some(x) == <<x>>
NoValue == <<>>

\* The anti-pattern rules of the catalog the model carries; pattern is the
\* text unit the rule's regex matches.
RuleSetRules ==
    << [id |-> "error_generic_unwrap", name |-> "Avoid unwrap/expect",
        category |-> "Error", severity |-> "Warning",
        description |-> "Avoid .unwrap() and .expect()",
        pattern |-> "u", is_anti_pattern |-> TRUE,
        fix_template |-> Some(".ok_or_else(|| bad_request!())?")],
       [id |-> "wasm_std_fs", name |-> "No std::fs",
        category |-> "Wasm", severity |-> "Error",
        description |-> "std::fs is not available in WASM32",
        pattern |-> "f", is_anti_pattern |-> TRUE,
        fix_template |-> Some("Use StateStore or TableStore provider")],
       [id |-> "forbidden_tokio", name |-> "No Tokio Runtime",
        category |-> "Wasm", severity |-> "Error",
        description |-> "Tokio runtime is not available in WASM32",
        pattern |-> "t", is_anti_pattern |-> TRUE,
        fix_template |-> Some("Use async/await without explicit runtime")] >>

\* The Diagnostic check_rules pushes for a match of rule at columns
\* start..end of line line_idx (0-indexed).
RuleDiagnostic(rule, line_idx, start, end, line) ==
    [line |-> line_idx + 1, column |-> start, end_column |-> end,
     severity |-> rule.severity, rule_id |-> rule.id, rule_name |-> rule.name,
     category |-> rule.category,
     message |-> IF rule.fix_template # NoValue
                 THEN <<rule.description, "Suggested fix", rule.fix_template[1]>>
                 ELSE <<rule.description>>,
     fix_template |-> rule.fix_template,
     source_snippet |-> Some(line)]

\* Mutant of FilterOne: a level of allow leaves the diagnostic as it is
\* instead of dropping it.
FilterOneKeepsAllowed(config, d) ==
    LET level == IF ~is_empty(config.cargo_overrides)
                 THEN effective_level(config.cargo_overrides, d.rule_id, d.category)
                 ELSE None
        d1 == IF level # None /\ to_severity(level) # None
              THEN [d EXCEPT !.severity = to_severity(level)] ELSE d
    IN  IF SeverityRank(d1.severity) < SeverityRank(config.min_severity) THEN <<>>
        ELSE IF \E i \in 1..Len(config.disabled_rules) : config.disabled_rules[i] = d1.rule_id
             THEN <<>>
        ELSE IF config.categories # <<>>
                /\ ~(\E i \in 1..Len(config.categories) : config.categories[i] = d1.category)
             THEN <<>>
        ELSE <<d1>>

\* Mutant of FilterOne: a rewritten diagnostic is rebuilt without its fix
\* template.
FilterOneDropsFix(config, d) ==
    LET level == IF ~is_empty(config.cargo_overrides)
                 THEN effective_level(config.cargo_overrides, d.rule_id, d.category)
                 ELSE None
        d1 == IF level # None /\ to_severity(level) # None
              THEN [d EXCEPT !.severity = to_severity(level), !.fix_template = NoValue]
              ELSE d
    IN  IF level # None /\ to_severity(level) = None THEN <<>>
        ELSE IF SeverityRank(d1.severity) < SeverityRank(config.min_severity) THEN <<>>
        ELSE IF \E i \in 1..Len(config.disabled_rules) : config.disabled_rules[i] = d1.rule_id
             THEN <<>>
        ELSE IF config.categories # <<>>
                /\ ~(\E i \in 1..Len(config.categories) : config.categories[i] = d1.category)
             THEN <<>>
        ELSE <<d1>>

\* A filter closure that tests the minimum severity on the severity the
\* diagnostic came with, before the rewrite.
FilterOneMinOnBuiltIn(config, d) ==
    LET level == IF ~is_empty(config.cargo_overrides)
                 THEN effective_level(config.cargo_overrides, d.rule_id, d.category)
                 ELSE None
        d1 == IF level # None /\ to_severity(level) # None
              THEN [d EXCEPT !.severity = to_severity(level)] ELSE d
    IN  IF level # None /\ to_severity(level) = None THEN <<>>
        ELSE IF SeverityRank(d.severity) < SeverityRank(config.min_severity) THEN <<>>
        ELSE IF \E i \in 1..Len(config.disabled_rules) : config.disabled_rules[i] = d1.rule_id
             THEN <<>>
        ELSE IF config.categories # <<>>
                /\ ~(\E i \in 1..Len(config.categories) : config.categories[i] = d1.category)
             THEN <<>>
        ELSE <<d1>>

\* The closure of filter_diagnostics's filter_map on one diagnostic: <<>> for
\* None, <<d>> for Some(d).
FilterOne(config, d) ==
    LET level == IF ~is_empty(config.cargo_overrides)
                 THEN effective_level(config.cargo_overrides, d.rule_id, d.category)
                 ELSE None
        d1 == IF level # None /\ to_severity(level) # None
              THEN [d EXCEPT !.severity = to_severity(level)] ELSE d
    IN  IF level # None /\ to_severity(level) = None THEN <<>>
        ELSE IF SeverityRank(d1.severity) < SeverityRank(config.min_severity) THEN <<>>
        ELSE IF \E i \in 1..Len(config.disabled_rules) : config.disabled_rules[i] = d1.rule_id
             THEN <<>>
        ELSE IF config.categories # <<>>
                /\ ~(\E i \in 1..Len(config.categories) : config.categories[i] = d1.category)
             THEN <<>>
        ELSE <<d1>>

\* Linter::filter_diagnostics: filter_map over the vector, in order.
RECURSIVE filter_diagnostics(_, _)
filter_diagnostics(config, diagnostics) ==
    IF diagnostics = <<>> THEN <<>>
    ELSE FilterOne(config, Head(diagnostics)) \o filter_diagnostics(config, Tail(diagnostics))

\* The retain that ends analyze: the diagnostics no directive ignores.
RetainNotIgnored(diagnostics, dirs) ==
    SelectSeq(diagnostics,
              LAMBDA d : ~should_ignore_diagnostic(d.line, d.rule_id, dirs))

\* LintConfig { categories, disabled_rules, min_severity, cargo_overrides };
\* all_rules and show_fixes are not read by the filter.
LintConfig(categories, disabled_rules, min_severity, overrides) ==
    [categories |-> categories, disabled_rules |-> disabled_rules,
     min_severity |-> min_severity, cargo_overrides |-> overrides]


(***************************************************************************)
(* Source text: diagnostics.rs:164-251                                     *)
(*                                                                         *)
(* A text is a sequence of units.  A unit is one byte the scanner or the   *)
(* line handling looks at, or a call shape one of the patterns matches,    *)
(* none of whose bytes the scanner treats specially, so that the scanner   *)
(* walks over it as over one plain byte:                                   *)
(*   "u"  .unwrap(                      "f"  std::fs::                     *)
(*   "t"  use tokio::                   "e"  extern crate tokio;           *)
(*   "D"  ![omnia::allow(all)]          "d"  [omnia::allow(error_generic_unwrap)] *)
(*   "x"  ;                                                                *)
(* A directive is "#" followed by "D" or "d".  Offsets and columns count   *)
(* units.                                                                  *)
(***************************************************************************)

Quote == "dq"
Backslash == "bs"
Newline == "nl"
Return == "cr"
Space == " "

Alphabet ==
    {"u", "f", "t", "e", "D", "d", "x", "r", "#", "/", "*",
     Quote, Backslash, Newline, Return, Space}

\* char::is_whitespace on the units.
IsWhitespace(c) == c \in {Space, Return, Newline}

\* The first index i >= from (1-based) with s[i] = c, or 0.
RECURSIVE IndexFrom(_, _, _)
IndexFrom(s, c, from) ==
    IF from > Len(s) THEN 0
    ELSE IF s[from] = c THEN from
    ELSE IndexFrom(s, c, from + 1)

\* str::lines: the text split at "\n"; a line that ended in "\n" also loses
\* a "\r" before it; no empty line follows a final "\n".
RECURSIVE lines(_)
lines(s) ==
    IF s = <<>> THEN <<>>
    ELSE LET n == IndexFrom(s, Newline, 1) IN
         IF n = 0 THEN <<s>>
         ELSE LET l == SubSeq(s, 1, n - 1)
                  stripped == IF l # <<>> /\ l[Len(l)] = Return
                              THEN SubSeq(l, 1, Len(l) - 1) ELSE l
              IN  <<stripped>> \o lines(SubSeq(s, n + 1, Len(s)))

\* str::trim.
RECURSIVE trim_start(_)
trim_start(s) ==
    IF s # <<>> /\ IsWhitespace(Head(s)) THEN trim_start(Tail(s)) ELSE s

RECURSIVE trim_end(_)
trim_end(s) ==
    IF s # <<>> /\ IsWhitespace(s[Len(s)]) THEN trim_end(SubSeq(s, 1, Len(s) - 1)) ELSE s

trim(s) == trim_end(trim_start(s))

\* analyze's test for a comment line: the trimmed line starts with "//",
\* "/*" or "*".
IsCommentLine(line) ==
    LET t == trim(line) IN
    \/ Len(t) >= 2 /\ t[1] = "/" /\ t[2] = "/"
    \/ Len(t) >= 2 /\ t[1] = "/" /\ t[2] = "*"
    \/ Len(t) >= 1 /\ t[1] = "*"

\* Regex::find for a pattern that matches the unit c: the column (0-based)
\* of the first match in the line, or -1.
find(line, c) == IndexFrom(line, c, 1) - 1

\* captures_iter for a pattern that matches the unit c: the columns of all
\* matches, in order.
RECURSIVE find_iter_from(_, _, _)
find_iter_from(line, c, from) ==
    LET i == IndexFrom(line, c, from) IN
    IF i = 0 THEN <<>> ELSE <<i - 1>> \o find_iter_from(line, c, i + 1)

find_iter(line, c) == find_iter_from(line, c, 1)

\* calculate_byte_offset: the lengths of the lines before line_idx, each
\* plus one, plus the column clamped to the line.
RECURSIVE offset_from(_, _, _, _, _)
offset_from(ls, idx, line_idx, col, offset) ==
    IF idx >= Len(ls) THEN offset
    ELSE IF idx = line_idx
         THEN offset + (IF col < Len(ls[idx + 1]) THEN col ELSE Len(ls[idx + 1]))
    ELSE offset_from(ls, idx + 1, line_idx, col, offset + Len(ls[idx + 1]) + 1)

calculate_byte_offset(text, line_idx, col) ==
    offset_from(lines(text), 0, line_idx, col, 0)

\* bytes[i], 0-based.
Byte(text, i) == text[i + 1]

\* The comment loop: the first index at or after i that holds "\n", or the
\* length.
RECURSIVE CommentEnd(_, _)
CommentEnd(text, i) ==
    IF i < Len(text) /\ Byte(text, i) # Newline THEN CommentEnd(text, i + 1) ELSE i

\* The loop counting the "#" of a raw string opener from j.
RECURSIVE HashRunEnd(_, _)
HashRunEnd(text, j) ==
    IF j < Len(text) /\ Byte(text, j) = "#" THEN HashRunEnd(text, j + 1) ELSE j

\* A closing-mark count that takes every quote for the terminator.
ClosingHashesAnyQuote(text, k, closing_hashes, hash_count) == hash_count

\* The loop counting closing "#" from k, at most hash_count of them.
RECURSIVE ClosingHashes(_, _, _, _)
ClosingHashes(text, k, closing_hashes, hash_count) ==
    IF k < Len(text) /\ Byte(text, k) = "#" /\ closing_hashes < hash_count
    THEN ClosingHashes(text, k + 1, closing_hashes + 1, hash_count)
    ELSE closing_hashes

\* The loop looking for a raw string's terminator from j: the index k after
\* the terminator, or -1 when the loop runs off the text.
RECURSIVE RawStringEnd(_, _, _)
RawStringEnd(text, j, hash_count) ==
    IF j >= Len(text) THEN -1
    ELSE IF Byte(text, j) = Quote
            /\ ClosingHashes(text, j + 1, 0, hash_count) = hash_count
         THEN j + 1 + hash_count
    ELSE RawStringEnd(text, j + 1, hash_count)

\* The loop looking for a plain string's closing quote from i, skipping the
\* byte after a backslash: the quote's index, or -1 when the loop runs off
\* the text.
RECURSIVE StringEnd(_, _)
StringEnd(text, i) ==
    IF i >= Len(text) THEN -1
    ELSE IF Byte(text, i) = Backslash /\ i + 1 < Len(text) THEN StringEnd(text, i + 2)
    ELSE IF Byte(text, i) = Quote THEN i
    ELSE StringEnd(text, i + 1)

\* The outer loop of is_inside_string_literal_at_offset from index i:
\* "true" or "false" as it returns, "diverges" when an iteration leaves i
\* unchanged (a raw string opener whose terminator is never found: the
\* `continue` at line 209 repeats the same iteration for ever).
RECURSIVE ScanFrom(_, _, _)
ScanFrom(text, byte_offset, i) ==
    IF ~(i < byte_offset /\ i < Len(text)) THEN "false"
    ELSE IF i + 1 < Len(text) /\ Byte(text, i) = "/" /\ Byte(text, i + 1) = "/"
         THEN ScanFrom(text, byte_offset, CommentEnd(text, i))
    ELSE LET j == HashRunEnd(text, i + 1)
             hash_count == j - (i + 1)
         IN
         IF Byte(text, i) = "r" /\ i + 1 < Len(text)
            /\ j < Len(text) /\ Byte(text, j) = Quote
         THEN LET k == RawStringEnd(text, j + 1, hash_count) IN
              IF k = -1 THEN "diverges"
              ELSE IF byte_offset > i /\ byte_offset < k THEN "true"
              ELSE ScanFrom(text, byte_offset, k)
         ELSE IF Byte(text, i) = Quote
         THEN LET close == StringEnd(text, i + 1) IN
              IF close = -1 THEN "false"
              ELSE IF byte_offset > i /\ byte_offset <= close THEN "true"
              ELSE ScanFrom(text, byte_offset, close + 1)
         ELSE ScanFrom(text, byte_offset, i + 1)

\* is_inside_string_literal_at_offset, where it returns.
is_inside_string_literal_at_offset(text, byte_offset) ==
    ScanFrom(text, byte_offset, 0) = "true"

\* is_inside_string_literal_at_offset never returns.
ScanDiverges(text, byte_offset) ==
    ScanFrom(text, byte_offset, 0) = "diverges"


(***************************************************************************)
(* parse_ignore_directives and analyze: diagnostics.rs:40-73, 279-440      *)
(***************************************************************************)

\* What the directive regex captures from the unit after "#": the "!" group
\* and the comma-separated argument list.
DirectiveBang(c) == c = "D"
DirectiveArgs(c) == IF c = "D" THEN <<"all">> ELSE <<"error_generic_unwrap">>

\* Regex::captures on a trimmed line: the 1-based index of the unit after
\* the "#" of the leftmost directive, or 0.
RECURSIVE FirstDirective(_, _)
FirstDirective(t, i) ==
    IF i + 1 > Len(t) THEN 0
    ELSE IF t[i] = "#" /\ t[i + 1] \in {"D", "d"} THEN i + 1
    ELSE FirstDirective(t, i + 1)

\* The rule set of a directive: None for the single argument "all" in any
\* letter case, else the set of its non-empty arguments.
DirectiveRules(args) ==
    IF Len(args) = 1 /\ to_lowercase(args[1]) = "all" THEN AllRules
    ELSE SomeRules({args[i] : i \in 1..Len(args)} \ {""})

\* parse_ignore_directives over the lines from index idx (0-based): at most
\* one directive per line, the leftmost.
RECURSIVE parse_from(_, _)
parse_from(ls, idx) ==
    IF idx >= Len(ls) THEN <<>>
    ELSE LET t == trim(ls[idx + 1])
             m == FirstDirective(t, 1)
         IN  (IF m = 0 THEN <<>>
              ELSE <<IgnoreDirective(idx + 1, DirectiveBang(t[m]),
                                     DirectiveRules(DirectiveArgs(t[m])))>>)
             \o parse_from(ls, idx + 1)

parse_ignore_directives(text) == parse_from(lines(text), 0)

\* The forbidden patterns of constraints.rs the model carries; patterns
\* holds the units the pattern's regexes match.
ForbiddenPatterns ==
    << [id |-> "std_fs", name |-> "Filesystem Access",
        reason |-> "std::fs is not available in WASM32",
        patterns |-> <<"f">>,
        alternative |-> "Use wasi_blobstore provider",
        severity |-> "Error"] >>

\* create_forbidden_pattern_diagnostic.
create_forbidden_pattern_diagnostic(line_idx, start, end, pattern, line) ==
    [line |-> line_idx + 1, column |-> start, end_column |-> end,
     severity |-> pattern.severity, rule_id |-> pattern.id,
     rule_name |-> pattern.name, category |-> "Wasm",
     message |-> <<pattern.reason, "Alternative", pattern.alternative>>,
     fix_template |-> Some(pattern.alternative),
     source_snippet |-> Some(line)]

\* create_forbidden_crate_diagnostic for the crate tokio.
create_forbidden_crate_diagnostic(line_idx, start, end, line) ==
    [line |-> line_idx + 1, column |-> start, end_column |-> end,
     severity |-> "Error", rule_id |-> "forbidden_crate_tokio",
     rule_name |-> "Forbidden Crate: tokio", category |-> "Wasm",
     message |-> <<"Crate 'tokio' is not available in WASM32", "Alternative",
                   "Use async/await without explicit runtime">>,
     fix_template |-> Some("Use async/await without explicit runtime"),
     source_snippet |-> Some(line)]

\* A match of the unit c found by Regex::find and then classified: "none"
\* without a match, else what the classifier does at the match's offset.
ClassifiedMatch(text, line, line_idx, c) ==
    IF find(line, c) = -1 THEN "none"
    ELSE ScanFrom(text, calculate_byte_offset(text, line_idx, find(line, c)), 0)

\* The loop over compiled_patterns for one line (one regex per pattern
\* unit): the first match of each, unless it is classified in-string.
RECURSIVE forbidden_pattern_diagnostics(_, _, _, _)
forbidden_pattern_diagnostics(text, line, line_idx, n) ==
    IF n > Len(ForbiddenPatterns) THEN <<>>
    ELSE LET pattern == ForbiddenPatterns[n]
             c == pattern.patterns[1]
         IN  (IF ClassifiedMatch(text, line, line_idx, c) = "false"
              THEN <<create_forbidden_pattern_diagnostic(
                        line_idx, find(line, c), find(line, c) + 1, pattern, line)>>
              ELSE <<>>)
             \o forbidden_pattern_diagnostics(text, line, line_idx, n + 1)

\* The loops over crate_use_pattern and crate_extern_pattern for one line:
\* every match names the forbidden crate, none is classified.
RECURSIVE crate_diagnostics(_, _, _)
crate_diagnostics(line, line_idx, columns) ==
    IF columns = <<>> THEN <<>>
    ELSE <<create_forbidden_crate_diagnostic(
              line_idx, Head(columns), Head(columns) + 1, line)>>
         \o crate_diagnostics(line, line_idx, Tail(columns))

\* check_rules: for each anti-pattern rule, the first match in the line,
\* unless it is classified in-string.
RECURSIVE check_rules_from(_, _, _, _)
check_rules_from(text, line, line_idx, n) ==
    IF n > Len(RuleSetRules) THEN <<>>
    ELSE LET rule == RuleSetRules[n] IN
         (IF rule.is_anti_pattern
             /\ ClassifiedMatch(text, line, line_idx, rule.pattern) = "false"
          THEN <<RuleDiagnostic(rule, line_idx, find(line, rule.pattern),
                                find(line, rule.pattern) + 1, line)>>
          ELSE <<>>)
         \o check_rules_from(text, line, line_idx, n + 1)

check_rules(text, line, line_idx) == check_rules_from(text, line, line_idx, 1)

\* The body of analyze's loop for one line.
line_diagnostics(text, line, line_idx) ==
    IF IsCommentLine(line) THEN <<>>
    ELSE forbidden_pattern_diagnostics(text, line, line_idx, 1)
         \o crate_diagnostics(line, line_idx, find_iter(line, "t"))
         \o crate_diagnostics(line, line_idx, find_iter(line, "e"))
         \o check_rules(text, line, line_idx)

\* Some classifier call made for the line never returns.
LineDiverges(text, line, line_idx) ==
    /\ ~IsCommentLine(line)
    /\ \/ \E n \in 1..Len(ForbiddenPatterns) :
            ClassifiedMatch(text, line, line_idx, ForbiddenPatterns[n].patterns[1]) = "diverges"
       \/ \E n \in 1..Len(RuleSetRules) :
            /\ RuleSetRules[n].is_anti_pattern
            /\ ClassifiedMatch(text, line, line_idx, RuleSetRules[n].pattern) = "diverges"

\* analyze's loop over the lines from index idx.
RECURSIVE pattern_diagnostics(_, _, _)
pattern_diagnostics(text, ls, idx) ==
    IF idx >= Len(ls) THEN <<>>
    ELSE line_diagnostics(text, ls[idx + 1], idx)
         \o pattern_diagnostics(text, ls, idx + 1)

\* The diagnostic the semantic analyzer reports for a handler block whose
\* header is on the given line.
SemanticDiagnostic(line) ==
    [line |-> line, column |-> 0, end_column |-> 0,
     severity |-> "Warning", rule_id |-> "handler_unused_provider_bound",
     rule_name |-> "Unused Provider Bound", category |-> "Handler",
     message |-> <<"Provider trait is declared but not used">>,
     fix_template |-> NoValue, source_snippet |-> NoValue]

\* What SemanticAnalyzer::analyze may return for a text: nothing, or one
\* diagnostic on one of its lines.
SemanticResults(text) ==
    {<<>>} \cup {<<SemanticDiagnostic(l)>> : l \in 1..Len(lines(text))}

\* The path extensions analyze is called with; None is a path without one.
Extensions == {"rs", "txt", None}

\* An analyze without the extension check: every path is analyzed.
analyze_any_extension(text, ext, semantic) ==
    IF \E idx \in 0..(Len(lines(text)) - 1) :
           LineDiverges(text, lines(text)[idx + 1], idx)
    THEN [status |-> "diverges", ext |-> ext, diags |-> <<>>]
    ELSE [status |-> "returned", ext |-> ext,
          diags |-> RetainNotIgnored(
                        pattern_diagnostics(text, lines(text), 0) \o semantic,
                        parse_ignore_directives(text))]

\* DiagnosticsEngine::analyze with the semantic analyzer's result given:
\* the outcome ("returned" or "diverges") and the vector returned.
analyze(text, ext, semantic) ==
    IF ext # "rs" THEN [status |-> "returned", ext |-> ext, diags |-> <<>>]
    ELSE IF \E idx \in 0..(Len(lines(text)) - 1) :
                LineDiverges(text, lines(text)[idx + 1], idx)
         THEN [status |-> "diverges", ext |-> ext, diags |-> <<>>]
    ELSE [status |-> "returned", ext |-> ext,
          diags |-> RetainNotIgnored(
                        pattern_diagnostics(text, lines(text), 0) \o semantic,
                        parse_ignore_directives(text))]


(***************************************************************************)
(* The state machines                                                      *)
(***************************************************************************)

NotDone == [done |-> FALSE, diags |-> <<>>]
Done(diags) == [done |-> TRUE, diags |-> diags]

NotAsked == [done |-> FALSE, diagnostic_line |-> 0, rule_id |-> None, result |-> FALSE]

NotAnalyzed == [status |-> "idle", ext |-> None, diags |-> <<>>]

\* is_inside_string_literal_at_offset not called yet.
NotScanned == [done |-> FALSE, byte_offset |-> 0, result |-> "false"]

\* check_handler_issues not called yet.
NoIssues == [done |-> FALSE, issues |-> <<>>]

\* The language client before it has sent anything.
NoClient == [open |-> FALSE, version |-> 0]

\* A worker thread that has not taken a file.
IdleThread == [file |-> 0, at |-> "idle", diagnostics |-> <<>>, ignore_directives |-> <<>>]

\* The run before it has looked for a manifest.
NotRun ==
    [stage |-> "start", cargo_overrides |-> DefaultConfig, stderr |-> <<>>,
     raws |-> <<>>, results |-> <<>>, displayed |-> <<>>,
     format |-> None, max_diagnostics |-> 0,
     error_on_warnings |-> FALSE, exit_code |-> None]

\* A lint table of the manifest: NoTable when the key is not there,
\* NotATable when its value is no table, else the table's entries.
NoTable == [is |-> "none", entries |-> EmptyMap]
NotATable == [is |-> "string", entries |-> EmptyMap]
Table(entries) == [is |-> "table", entries |-> entries]

\* No manifest above the linted path.
NoManifest == [kind |-> "absent", workspace |-> NoTable, crate |-> NoTable]

\* extract_impl_block not called yet.
NotExtracted == [done |-> FALSE, start_line |-> 0, result |-> <<>>]

\* calculate_byte_offset not called yet.
NotLocated == [done |-> FALSE, line_idx |-> 0, col |-> 0, result |-> 0]

\* LintConfig::default().
DefaultLintConfig == LintConfig(<<>>, <<>>, "Hint", DefaultConfig)

\* lint_str not called yet.
NotLinted == [done |-> FALSE, analyzed |-> <<>>, diagnostics |-> <<>>]

\* ---- SpecConfig

\* The two tables are empty before the manifest is read; the other machines
\* are idle.
InitConfig ==
    /\ workspace = DefaultConfig
    /\ crate_level = DefaultConfig
    /\ base = DefaultConfig
    /\ pc = "load"
    /\ resolved = NoQuery
    /\ cargo_overrides = DefaultConfig
    /\ raw = <<>>
    /\ retained = NotDone
    /\ filtered = NotDone
    /\ directives = <<>>
    /\ ignored = NotAsked
    /\ content = <<>>
    /\ analysis = NotAnalyzed
    /\ scanned = <<>>
    /\ inside = NotScanned
    /\ block = [impl_content |-> {}, declared_bounds |-> <<>>, start_line |-> 0]
    /\ issues = NoIssues
    /\ client = NoClient
    /\ documents = NoValue
    /\ handlers = <<>>
    /\ published = <<>>
    /\ files = <<>>
    /\ semantic_analyzer = "silent"
    /\ threads = <<>>
    /\ outcomes = <<>>
    /\ reported = <<>>
    /\ results = NoValue
    /\ manifest = NoManifest
    /\ run = NotRun
    /\ source = <<>>
    /\ extracted = NotExtracted
    /\ body = <<>>
    /\ located = NotLocated
    /\ linter = DefaultLintConfig
    /\ linted = NotLinted
    /\ blocked = 0

SpecConfig == InitConfig /\ [][NextConfig]_vars

\* ---- SpecFilter

\* Bound: the diagnostics in the vector analyze builds.
MaxDiags == 3

\* Bound: the overrides the Linter's manifest config holds.
MaxOverrides == 2

\* The catalog rule with the given id.
RuleById(id) == RuleSetRules[CHOOSE n \in 1..Len(RuleSetRules) : RuleSetRules[n].id = id]

\* The vectors analyze builds from catalog matches: the i-th diagnostic is a
\* match of some rule on line i.
RawVectors ==
    UNION {{[i \in 1..n |->
                RuleDiagnostic(RuleById(ids[i]), i - 1, 0, 1, <<RuleById(ids[i]).pattern>>)] :
            ids \in [1..n -> RuleIds]} : n \in 0..MaxDiags}

\* The directive lists the retain is exercised with.
RetainDirectives ==
    {<<>>} \cup
    {<<IgnoreDirective(1, fl, rules)>> :
        fl \in BOOLEAN, rules \in {AllRules, SomeRules({"error_generic_unwrap"})}}

\* The command-line filters of the Linter: --categories, --disable.
CategoryFilters == {<<>>, <<"Error">>}
DisabledRules == {<<>>, <<"error_generic_unwrap">>}

\* The end of analyze (diagnostics.rs:358-361): the retain over the vector.
Retain(dirs) ==
    /\ ~retained.done
    /\ retained' = Done(RetainNotIgnored(raw, dirs))
    /\ UNCHANGED <<cargo_overrides, raw, filtered>>
    /\ UNCHANGED <<configVars, suppressVars, analyzeVars, classifyVars, reconcileVars, backendVars, batchVars, runVars, extractVars, offsetVars, linterVars, coopVars>>

\* Linter::filter_diagnostics on what analyze returned.
FilterDiagnostics(categories, disabled_rules, min_severity) ==
    /\ retained.done
    /\ ~filtered.done
    /\ filtered' = Done(filter_diagnostics(
                        LintConfig(categories, disabled_rules, min_severity, cargo_overrides),
                        retained.diags))
    /\ UNCHANGED <<cargo_overrides, raw, retained>>
    /\ UNCHANGED <<configVars, suppressVars, analyzeVars, classifyVars, reconcileVars, backendVars, batchVars, runVars, extractVars, offsetVars, linterVars, coopVars>>

NextFilter ==
    \/ \E dirs \in RetainDirectives : Retain(dirs)
    \/ \E categories \in CategoryFilters, disabled_rules \in DisabledRules,
          min_severity \in RuleSeverity :
            FilterDiagnostics(categories, disabled_rules, min_severity)

\* A Linter with some manifest overrides and a vector analyze has built.
InitFilter ==
    /\ workspace = DefaultConfig
    /\ crate_level = DefaultConfig
    /\ base = DefaultConfig
    /\ pc = "idle"
    /\ resolved = NoQuery
    /\ cargo_overrides \in ConfigsUpTo(MaxOverrides)
    /\ raw \in RawVectors
    /\ retained = NotDone
    /\ filtered = NotDone
    /\ directives = <<>>
    /\ ignored = NotAsked
    /\ content = <<>>
    /\ analysis = NotAnalyzed
    /\ scanned = <<>>
    /\ inside = NotScanned
    /\ block = [impl_content |-> {}, declared_bounds |-> <<>>, start_line |-> 0]
    /\ issues = NoIssues
    /\ client = NoClient
    /\ documents = NoValue
    /\ handlers = <<>>
    /\ published = <<>>
    /\ files = <<>>
    /\ semantic_analyzer = "silent"
    /\ threads = <<>>
    /\ outcomes = <<>>
    /\ reported = <<>>
    /\ results = NoValue
    /\ manifest = NoManifest
    /\ run = NotRun
    /\ source = <<>>
    /\ extracted = NotExtracted
    /\ body = <<>>
    /\ located = NotLocated
    /\ linter = DefaultLintConfig
    /\ linted = NotLinted
    /\ blocked = 0

SpecFilter == InitFilter /\ [][NextFilter]_vars

\* ---- SpecSuppress

\* Bound: the last line a directive is parsed on.
MaxDirectiveLine == 3

\* Bound: the directives parsed from one file.
MaxDirectives == 2

\* The last line a diagnostic is reported on: past the window of the last
\* directive.
MaxDiagnosticLine == MaxDirectiveLine + AttributeWindow + 1

\* The rule sets of the directives.
DirectiveRuleSets ==
    {AllRules} \cup
    {SomeRules(S) : S \in {{}, {"error_generic_unwrap"}, {"wasm_std_fs"},
                           {"ERROR_GENERIC_UNWRAP"},
                           {"error_generic_unwrap", "wasm_std_fs"}}}

\* The lists parse_ignore_directives can return: one directive per line at
\* most, in line order.
DirectiveLists ==
    {ds \in UNION {[1..n -> [line : 1..MaxDirectiveLine, is_file_level : BOOLEAN,
                              rules : DirectiveRuleSets]] : n \in 0..MaxDirectives} :
        \A i \in 1..Len(ds) : \A j \in 1..Len(ds) : i < j => ds[i].line < ds[j].line}

\* should_ignore_diagnostic(diagnostic_line, rule_id, &directives).
ShouldIgnoreDiagnostic(diagnostic_line, rule_id) ==
    /\ ~ignored.done
    /\ ignored' = [done |-> TRUE, diagnostic_line |-> diagnostic_line,
                   rule_id |-> rule_id,
                   result |-> should_ignore_diagnostic(diagnostic_line, rule_id, directives)]
    /\ UNCHANGED directives
    /\ UNCHANGED <<configVars, filterVars, analyzeVars, classifyVars, reconcileVars, backendVars, batchVars, runVars, extractVars, offsetVars, linterVars, coopVars>>

NextSuppress ==
    \E diagnostic_line \in 1..MaxDiagnosticLine, rule_id \in RuleIds :
        ShouldIgnoreDiagnostic(diagnostic_line, rule_id)

\* Some parsed directive list.
InitSuppress ==
    /\ workspace = DefaultConfig
    /\ crate_level = DefaultConfig
    /\ base = DefaultConfig
    /\ pc = "idle"
    /\ resolved = NoQuery
    /\ cargo_overrides = DefaultConfig
    /\ raw = <<>>
    /\ retained = NotDone
    /\ filtered = NotDone
    /\ directives \in DirectiveLists
    /\ ignored = NotAsked
    /\ content = <<>>
    /\ analysis = NotAnalyzed
    /\ scanned = <<>>
    /\ inside = NotScanned
    /\ block = [impl_content |-> {}, declared_bounds |-> <<>>, start_line |-> 0]
    /\ issues = NoIssues
    /\ client = NoClient
    /\ documents = NoValue
    /\ handlers = <<>>
    /\ published = <<>>
    /\ files = <<>>
    /\ semantic_analyzer = "silent"
    /\ threads = <<>>
    /\ outcomes = <<>>
    /\ reported = <<>>
    /\ results = NoValue
    /\ manifest = NoManifest
    /\ run = NotRun
    /\ source = <<>>
    /\ extracted = NotExtracted
    /\ body = <<>>
    /\ located = NotLocated
    /\ linter = DefaultLintConfig
    /\ linted = NotLinted
    /\ blocked = 0

SpecSuppress == InitSuppress /\ [][NextSuppress]_vars

\* ---- SpecAnalyze

\* Bound: the pieces a source text is put together from.
MaxLen == 3

\* The pieces a text is put together from: single units, and the unit
\* sequences that open a comment, form a directive and delimit a raw string.
Chunks ==
    {<<c>> : c \in {"u", "f", "t", "x", "r", "#", Quote, Backslash, Newline, Space}}
    \cup {<<"/", "/">>, <<"#", "D">>, <<"#", "d">>, <<"r", "#", Quote>>, <<Quote, "#">>}

RECURSIVE Flatten(_)
Flatten(cs) == IF cs = <<>> THEN <<>> ELSE Head(cs) \o Flatten(Tail(cs))

\* Every text of at most m pieces.
Contents(m) == UNION {{Flatten(cs) : cs \in [1..n -> Chunks]} : n \in 0..m}

\* DiagnosticsEngine::analyze(content, path).
Analyze(ext, semantic) ==
    /\ analysis.status = "idle"
    /\ analysis' = analyze(content, ext, semantic)
    /\ UNCHANGED content
    /\ UNCHANGED <<configVars, filterVars, suppressVars, classifyVars, reconcileVars, backendVars, batchVars, runVars, extractVars, offsetVars, linterVars, coopVars>>

NextAnalyze ==
    \E ext \in Extensions : \E semantic \in SemanticResults(content) : Analyze(ext, semantic)

\* Some source text, not analyzed yet.
InitAnalyze ==
    /\ workspace = DefaultConfig
    /\ crate_level = DefaultConfig
    /\ base = DefaultConfig
    /\ pc = "idle"
    /\ resolved = NoQuery
    /\ cargo_overrides = DefaultConfig
    /\ raw = <<>>
    /\ retained = NotDone
    /\ filtered = NotDone
    /\ directives = <<>>
    /\ ignored = NotAsked
    /\ content \in Contents(MaxLen)
    /\ analysis = NotAnalyzed
    /\ scanned = <<>>
    /\ inside = NotScanned
    /\ block = [impl_content |-> {}, declared_bounds |-> <<>>, start_line |-> 0]
    /\ issues = NoIssues
    /\ client = NoClient
    /\ documents = NoValue
    /\ handlers = <<>>
    /\ published = <<>>
    /\ files = <<>>
    /\ semantic_analyzer = "silent"
    /\ threads = <<>>
    /\ outcomes = <<>>
    /\ reported = <<>>
    /\ results = NoValue
    /\ manifest = NoManifest
    /\ run = NotRun
    /\ source = <<>>
    /\ extracted = NotExtracted
    /\ body = <<>>
    /\ located = NotLocated
    /\ linter = DefaultLintConfig
    /\ linted = NotLinted
    /\ blocked = 0

SpecAnalyze == InitAnalyze /\ [][NextAnalyze]_vars


\* ---- SpecClassify

\* Bound: the pieces the classifier's content is put together from.
MaxScanLen == 4

\* The pieces of the classifier's contents: single units, and the unit
\* sequences that open a comment and delimit a raw string.
ScanChunks ==
    {<<c>> : c \in {"x", "r", "#", Quote, Backslash, Newline}}
    \cup {<<"/", "/">>, <<"r", "#", Quote>>, <<Quote, "#">>}

\* Every content of at most m pieces.
ScanTexts(m) == UNION {{Flatten(cs) : cs \in [1..n -> ScanChunks]} : n \in 0..m}

\* is_inside_string_literal_at_offset(scanned, byte_offset), for an offset
\* calculate_byte_offset can produce: at most the length of the content.
IsInsideStringLiteralAtOffset(byte_offset) ==
    /\ ~inside.done
    /\ inside' = [done |-> TRUE, byte_offset |-> byte_offset,
                  result |-> ScanFrom(scanned, byte_offset, 0)]
    /\ UNCHANGED scanned
    /\ UNCHANGED <<configVars, filterVars, suppressVars, analyzeVars, reconcileVars, backendVars, batchVars, runVars, extractVars, offsetVars, linterVars, coopVars>>

NextClassify ==
    \E byte_offset \in 0..Len(scanned) : IsInsideStringLiteralAtOffset(byte_offset)

\* Some content, not classified yet.
InitClassify ==
    /\ workspace = DefaultConfig
    /\ crate_level = DefaultConfig
    /\ base = DefaultConfig
    /\ pc = "idle"
    /\ resolved = NoQuery
    /\ cargo_overrides = DefaultConfig
    /\ raw = <<>>
    /\ retained = NotDone
    /\ filtered = NotDone
    /\ directives = <<>>
    /\ ignored = NotAsked
    /\ content = <<>>
    /\ analysis = NotAnalyzed
    /\ scanned \in ScanTexts(MaxScanLen)
    /\ inside = NotScanned
    /\ block = [impl_content |-> {}, declared_bounds |-> <<>>, start_line |-> 0]
    /\ issues = NoIssues
    /\ client = NoClient
    /\ documents = NoValue
    /\ handlers = <<>>
    /\ published = <<>>
    /\ files = <<>>
    /\ semantic_analyzer = "silent"
    /\ threads = <<>>
    /\ outcomes = <<>>
    /\ reported = <<>>
    /\ results = NoValue
    /\ manifest = NoManifest
    /\ run = NotRun
    /\ source = <<>>
    /\ extracted = NotExtracted
    /\ body = <<>>
    /\ located = NotLocated
    /\ linter = DefaultLintConfig
    /\ linted = NotLinted
    /\ blocked = 0

SpecClassify == InitClassify /\ [][NextClassify]_vars

(***************************************************************************)
(* The handler analysis: .old/src/llm.rs:384-412, 557-699                  *)
(*                                                                         *)
(* An impl block's content is modelled by the set of the texts the         *)
(* analyzer's patterns look for that occur in it.                          *)
(***************************************************************************)

\* The provider traits detect_provider_usage knows.
ProviderTraits == {"Config", "HttpRequest", "Publisher", "StateStore"}

\* The call texts of the provider traits.
CallShapes ==
    {"Config::get", "provider.get(", "provider.fetch(", "provider.send(",
     "provider.set("}

\* The other texts check_handler_issues looks for; "51 lines" stands for a
\* content of more than 50 lines.
OtherShapes ==
    {"fn from_input", "async fn handle", "Reply::ok", "Err(", "bad_request!",
     "51 lines"}

\* AnalyzerPatterns: is_match of each pattern on a content.
config_get(impl_content) ==
    "Config::get" \in impl_content \/ "provider.get(" \in impl_content
http_fetch(impl_content) == "provider.fetch(" \in impl_content
publisher_send(impl_content) == "provider.send(" \in impl_content
state_store(impl_content) ==
    "provider.get(" \in impl_content \/ "provider.set(" \in impl_content
from_input(impl_content) == "fn from_input" \in impl_content
handle_fn(impl_content) == "async fn handle" \in impl_content
bad_request(impl_content) == "bad_request!" \in impl_content
reply_ok(impl_content) == "Reply::ok" \in impl_content

\* detect_provider_usage: the traits whose pattern matches, in the order of
\* the four tests.
detect_provider_usage(impl_content) ==
    (IF config_get(impl_content) THEN <<"Config">> ELSE <<>>)
    \o (IF http_fetch(impl_content) THEN <<"HttpRequest">> ELSE <<>>)
    \o (IF publisher_send(impl_content) THEN <<"Publisher">> ELSE <<>>)
    \o (IF state_store(impl_content) THEN <<"StateStore">> ELSE <<>>)

\* Vec::contains.
Contains(seq, x) == \E i \in 1..Len(seq) : seq[i] = x

\* HandlerIssue; subject is the trait the message names, None when it names
\* none.
HandlerIssue(code, severity, subject, line) ==
    [code |-> code, severity |-> severity, subject |-> subject, line |-> line]

\* The loop over the declared bounds from index n: one
\* handler_unused_provider_bound Warning per bound that is not used.
RECURSIVE unused_bound_issues(_, _, _, _)
unused_bound_issues(used, declared_bounds, start_line, n) ==
    IF n > Len(declared_bounds) THEN <<>>
    ELSE (IF ~Contains(used, declared_bounds[n]) /\ declared_bounds[n] # "P"
          THEN <<HandlerIssue("handler_unused_provider_bound", "Warning",
                              declared_bounds[n], start_line)>>
          ELSE <<>>)
         \o unused_bound_issues(used, declared_bounds, start_line, n + 1)

\* The loop over the used traits from index n: one
\* handler_missing_provider_bound Error per trait that is not declared.
RECURSIVE missing_bound_issues(_, _, _, _)
missing_bound_issues(used, declared_bounds, start_line, n) ==
    IF n > Len(used) THEN <<>>
    ELSE (IF ~Contains(declared_bounds, used[n])
          THEN <<HandlerIssue("handler_missing_provider_bound", "Error",
                              used[n], start_line)>>
          ELSE <<>>)
         \o missing_bound_issues(used, declared_bounds, start_line, n + 1)

\* check_handler_issues.
check_handler_issues(impl_content, declared_bounds, start_line) ==
    LET used == detect_provider_usage(impl_content) IN
    (IF ~from_input(impl_content)
     THEN <<HandlerIssue("handler_missing_from_input", "Error", None, start_line)>>
     ELSE <<>>)
    \o (IF ~handle_fn(impl_content)
        THEN <<HandlerIssue("handler_missing_handle", "Error", None, start_line)>>
        ELSE <<>>)
    \o unused_bound_issues(used, declared_bounds, start_line, 1)
    \o missing_bound_issues(used, declared_bounds, start_line, 1)
    \o (IF ~bad_request(impl_content) /\ "Err(" \in impl_content
        THEN <<HandlerIssue("handler_non_sdk_error", "Warning", None, start_line)>>
        ELSE <<>>)
    \o (IF ~reply_ok(impl_content)
        THEN <<HandlerIssue("handler_no_reply", "Hint", None, start_line)>>
        ELSE <<>>)
    \o (IF "51 lines" \in impl_content /\ ~handle_fn(impl_content)
        THEN <<HandlerIssue("handler_large_impl", "Hint", None, start_line)>>
        ELSE <<>>)

\* ---- SpecReconcile

\* Bound: the bounds an impl header declares.
MaxBounds == 2

\* The bound lists extract_handlers splits from a header's generics.
BoundLists(m) == UNION {[1..n -> ProviderTraits \cup {"P"}] : n \in 0..m}

\* check_handler_issues(&impl_content, &provider_bounds, line_idx).
CheckHandlerIssues ==
    /\ ~issues.done
    /\ issues' = [done |-> TRUE,
                  issues |-> check_handler_issues(block.impl_content,
                                                  block.declared_bounds,
                                                  block.start_line)]
    /\ UNCHANGED block
    /\ UNCHANGED <<configVars, filterVars, suppressVars, analyzeVars, classifyVars, backendVars, batchVars, runVars, extractVars, offsetVars, linterVars, coopVars>>

NextReconcile == CheckHandlerIssues

\* Some impl block with its declared bounds, not checked yet.
InitReconcile ==
    /\ workspace = DefaultConfig
    /\ crate_level = DefaultConfig
    /\ base = DefaultConfig
    /\ pc = "idle"
    /\ resolved = NoQuery
    /\ cargo_overrides = DefaultConfig
    /\ raw = <<>>
    /\ retained = NotDone
    /\ filtered = NotDone
    /\ directives = <<>>
    /\ ignored = NotAsked
    /\ content = <<>>
    /\ analysis = NotAnalyzed
    /\ scanned = <<>>
    /\ inside = NotScanned
    /\ block \in [impl_content : SUBSET (CallShapes \cup OtherShapes),
                  declared_bounds : BoundLists(MaxBounds),
                  start_line : {0}]
    /\ issues = NoIssues
    /\ client = NoClient
    /\ documents = NoValue
    /\ handlers = <<>>
    /\ published = <<>>
    /\ files = <<>>
    /\ semantic_analyzer = "silent"
    /\ threads = <<>>
    /\ outcomes = <<>>
    /\ reported = <<>>
    /\ results = NoValue
    /\ manifest = NoManifest
    /\ run = NotRun
    /\ source = <<>>
    /\ extracted = NotExtracted
    /\ body = <<>>
    /\ located = NotLocated
    /\ linter = DefaultLintConfig
    /\ linted = NotLinted
    /\ blocked = 0

SpecReconcile == InitReconcile /\ [][NextReconcile]_vars

(***************************************************************************)
(* The language server backend: .old/src/backend.rs:16-151                 *)
(*                                                                         *)
(* One document.  Every notification gets a handler task; the tasks run    *)
(* concurrently, and a task's steps are the stretches of its code between  *)
(* taking a lock of the document table and the await of a publish.  An     *)
(* entry of the table is read under a read guard that analyze_document     *)
(* holds until its publish has completed; insert, get_mut and remove need  *)
(* the entry free of read guards.                                          *)
(***************************************************************************)

\* The texts of the document.
DocTexts == {<<"x">>, <<"u">>}

\* DocumentState.
DocumentState(text, version) == [content |-> text, version |-> version]

\* A handler task: the notification's parameters, where the task stands,
\* and the version and diagnostics analyze_document holds for its publish.
Handler(kind, version, text, at) ==
    [kind |-> kind, version |-> version, text |-> text, at |-> at,
     doc_version |-> 0, diagnostics |-> <<>>]

\* A task holds a read guard on the document's entry.
ReadGuardHeld == \E i \in 1..Len(handlers) : handlers[i].at = "publish"

\* client.publish_diagnostics(uri, diagnostics, version).
PublishedDiagnostics(diagnostics, version) ==
    [diagnostics |-> diagnostics, version |-> version]

\* ---- SpecBackend

\* Bound: the notifications the client sends.
MaxNotifications == 3

\* The client opens the document: textDocument/didOpen with its text and the
\* next version.
ClientDidOpen(text) ==
    /\ Len(handlers) < MaxNotifications
    /\ ~client.open
    /\ client' = [open |-> TRUE, version |-> client.version + 1]
    /\ handlers' = Append(handlers, Handler("open", client.version + 1, Some(text), "start"))
    /\ UNCHANGED <<documents, published>>
    /\ UNCHANGED <<configVars, filterVars, suppressVars, analyzeVars, classifyVars, reconcileVars, batchVars, runVars, extractVars, offsetVars, linterVars, coopVars>>

\* The client edits the document: textDocument/didChange with the next
\* version and the list of content changes, of which the handler takes the
\* last (text is NoValue for an empty list).
ClientDidChange(text) ==
    /\ Len(handlers) < MaxNotifications
    /\ client.open
    /\ client' = [client EXCEPT !.version = client.version + 1]
    /\ handlers' = Append(handlers, Handler("change", client.version + 1, text, "start"))
    /\ UNCHANGED <<documents, published>>
    /\ UNCHANGED <<configVars, filterVars, suppressVars, analyzeVars, classifyVars, reconcileVars, batchVars, runVars, extractVars, offsetVars, linterVars, coopVars>>

\* The client saves the document: textDocument/didSave; did_save starts with
\* analyze_document.
ClientDidSave ==
    /\ Len(handlers) < MaxNotifications
    /\ client.open
    /\ handlers' = Append(handlers, Handler("save", 0, NoValue, "analyze"))
    /\ UNCHANGED <<client, documents, published>>
    /\ UNCHANGED <<configVars, filterVars, suppressVars, analyzeVars, classifyVars, reconcileVars, batchVars, runVars, extractVars, offsetVars, linterVars, coopVars>>

\* The client closes the document: textDocument/didClose.
ClientDidClose ==
    /\ Len(handlers) < MaxNotifications
    /\ client.open
    /\ client' = [client EXCEPT !.open = FALSE]
    /\ handlers' = Append(handlers, Handler("close", 0, NoValue, "start"))
    /\ UNCHANGED <<documents, published>>
    /\ UNCHANGED <<configVars, filterVars, suppressVars, analyzeVars, classifyVars, reconcileVars, batchVars, runVars, extractVars, offsetVars, linterVars, coopVars>>

\* did_open up to its analyze_document: documents.insert.
DidOpen(i) ==
    /\ handlers[i].kind = "open" /\ handlers[i].at = "start"
    /\ ~ReadGuardHeld
    /\ documents' = Some(DocumentState(handlers[i].text[1], handlers[i].version))
    /\ handlers' = [handlers EXCEPT ![i].at = "analyze"]
    /\ UNCHANGED <<client, published>>
    /\ UNCHANGED <<configVars, filterVars, suppressVars, analyzeVars, classifyVars, reconcileVars, batchVars, runVars, extractVars, offsetVars, linterVars, coopVars>>

\* did_change up to its analyze_document: documents.get_mut and, when the
\* document is open and there is a content change, the assignment of content
\* and version.
DidChange(i) ==
    /\ handlers[i].kind = "change" /\ handlers[i].at = "start"
    /\ ~ReadGuardHeld
    /\ documents' = IF documents # NoValue /\ handlers[i].text # NoValue
                    THEN Some(DocumentState(handlers[i].text[1], handlers[i].version))
                    ELSE documents
    /\ handlers' = [handlers EXCEPT ![i].at = "analyze"]
    /\ UNCHANGED <<client, published>>
    /\ UNCHANGED <<configVars, filterVars, suppressVars, analyzeVars, classifyVars, reconcileVars, batchVars, runVars, extractVars, offsetVars, linterVars, coopVars>>

\* did_close up to its publish: documents.remove.
DidClose(i) ==
    /\ handlers[i].kind = "close" /\ handlers[i].at = "start"
    /\ ~ReadGuardHeld
    /\ documents' = NoValue
    /\ handlers' = [handlers EXCEPT ![i].at = "clear"]
    /\ UNCHANGED <<client, published>>
    /\ UNCHANGED <<configVars, filterVars, suppressVars, analyzeVars, classifyVars, reconcileVars, batchVars, runVars, extractVars, offsetVars, linterVars, coopVars>>

\* did_close's publish of an empty list without version.
ClearDiagnostics(i) ==
    /\ handlers[i].at = "clear"
    /\ published' = Append(published, PublishedDiagnostics(<<>>, NoValue))
    /\ handlers' = [handlers EXCEPT ![i].at = "done"]
    /\ UNCHANGED <<client, documents>>
    /\ UNCHANGED <<configVars, filterVars, suppressVars, analyzeVars, classifyVars, reconcileVars, batchVars, runVars, extractVars, offsetVars, linterVars, coopVars>>

\* analyze_document up to its publish: documents.get, and for an open
\* document the analysis of its content under the read guard.
AnalyzeDocument(i) ==
    /\ handlers[i].at = "analyze"
    /\ handlers' =
           IF documents = NoValue
           THEN [handlers EXCEPT ![i].at = "done"]
           ELSE [handlers EXCEPT
                    ![i].at = "publish",
                    ![i].doc_version = documents[1].version,
                    ![i].diagnostics = analyze(documents[1].content, "rs", <<>>).diags]
    /\ UNCHANGED <<client, documents, published>>
    /\ UNCHANGED <<configVars, filterVars, suppressVars, analyzeVars, classifyVars, reconcileVars, batchVars, runVars, extractVars, offsetVars, linterVars, coopVars>>

\* analyze_document's publish completes and the read guard is dropped.
PublishDiagnostics(i) ==
    /\ handlers[i].at = "publish"
    /\ published' = Append(published,
                           PublishedDiagnostics(handlers[i].diagnostics,
                                                Some(handlers[i].doc_version)))
    /\ handlers' = [handlers EXCEPT ![i].at = "done"]
    /\ UNCHANGED <<client, documents>>
    /\ UNCHANGED <<configVars, filterVars, suppressVars, analyzeVars, classifyVars, reconcileVars, batchVars, runVars, extractVars, offsetVars, linterVars, coopVars>>

NextBackend ==
    \/ \E text \in DocTexts : ClientDidOpen(text)
    \/ \E text \in {NoValue} \cup {Some(t) : t \in DocTexts} : ClientDidChange(text)
    \/ ClientDidSave
    \/ ClientDidClose
    \/ \E i \in 1..Len(handlers) : DidOpen(i)
    \/ \E i \in 1..Len(handlers) : DidChange(i)
    \/ \E i \in 1..Len(handlers) : DidClose(i)
    \/ \E i \in 1..Len(handlers) : ClearDiagnostics(i)
    \/ \E i \in 1..Len(handlers) : AnalyzeDocument(i)
    \/ \E i \in 1..Len(handlers) : PublishDiagnostics(i)

\* QwasrBackend::new: no document is open, nothing has been published.
InitBackend ==
    /\ workspace = DefaultConfig
    /\ crate_level = DefaultConfig
    /\ base = DefaultConfig
    /\ pc = "idle"
    /\ resolved = NoQuery
    /\ cargo_overrides = DefaultConfig
    /\ raw = <<>>
    /\ retained = NotDone
    /\ filtered = NotDone
    /\ directives = <<>>
    /\ ignored = NotAsked
    /\ content = <<>>
    /\ analysis = NotAnalyzed
    /\ scanned = <<>>
    /\ inside = NotScanned
    /\ block = [impl_content |-> {}, declared_bounds |-> <<>>, start_line |-> 0]
    /\ issues = NoIssues
    /\ client = NoClient
    /\ documents = NoValue
    /\ handlers = <<>>
    /\ published = <<>>
    /\ files = <<>>
    /\ semantic_analyzer = "silent"
    /\ threads = <<>>
    /\ outcomes = <<>>
    /\ reported = <<>>
    /\ results = NoValue
    /\ manifest = NoManifest
    /\ run = NotRun
    /\ source = <<>>
    /\ extracted = NotExtracted
    /\ body = <<>>
    /\ located = NotLocated
    /\ linter = DefaultLintConfig
    /\ linted = NotLinted
    /\ blocked = 0

SpecBackend == InitBackend /\ [][NextBackend]_vars

(***************************************************************************)
(* The batch run: main.rs:214-224, lib.rs:84-91, diagnostics.rs:279-362    *)
(*                                                                         *)
(* The files of the run are linted by worker threads that share one        *)
(* Linter; a thread lints one file at a time, and the steps of two threads *)
(* interleave.  The locals of analyze live in the frame of the thread that *)
(* runs the call.                                                          *)
(***************************************************************************)

\* The files a run may meet: whether read_to_string succeeds, the path's
\* extension and the content.
BatchFiles ==
    {[readable |-> FALSE, ext |-> "rs", content |-> <<>>],
     [readable |-> TRUE, ext |-> "rs", content |-> <<"u">>],
     [readable |-> TRUE, ext |-> "rs", content |-> <<"x">>],
     [readable |-> TRUE, ext |-> "txt", content |-> <<"u">>],
     [readable |-> TRUE, ext |-> "rs", content |-> <<"r", Quote, "u">>]}

\* SemanticAnalyzer::analyze of the engine: either analyzer is a function of
\* the content alone.
semantic_analyze(analyzer, text) ==
    IF analyzer = "reporting" /\ Len(lines(text)) > 0
    THEN <<SemanticDiagnostic(1)>> ELSE <<>>

\* An entry of analyze that keeps what the frame held.
EnterAnalyzeKeepsVector(frame) == frame

\* The locals of analyze on entry: let mut diagnostics = Vec::new().
EnterAnalyze(frame) ==
    [frame EXCEPT !.diagnostics = <<>>, !.ignore_directives = <<>>]

\* The result of lint_file for one file: not there yet, Err, or Ok with the
\* filtered vector (analyzed is the vector analyze returned).
Pending == [state |-> "pending", analyzed |-> <<>>, diagnostics |-> <<>>]
Err == [state |-> "err", analyzed |-> <<>>, diagnostics |-> <<>>]
Ok(analyzed, diagnostics) ==
    [state |-> "ok", analyzed |-> analyzed, diagnostics |-> diagnostics]

\* A collect that stops at the first file whose lint failed.
RECURSIVE collect_until_error(_, _)
collect_until_error(outs, i) ==
    IF i > Len(outs) \/ outs[i].state # "ok" THEN <<>>
    ELSE <<[file |-> i, diagnostics |-> outs[i].diagnostics]>>
         \o collect_until_error(outs, i + 1)

\* par_iter().filter_map(..).collect() over the outcomes from file i on: the
\* (file, diagnostics) pairs of the Ok outcomes, in the order of the files.
RECURSIVE filter_map_collect(_, _)
filter_map_collect(outs, i) ==
    IF i > Len(outs) THEN <<>>
    ELSE (IF outs[i].state = "ok"
          THEN <<[file |-> i, diagnostics |-> outs[i].diagnostics]>>
          ELSE <<>>) \o filter_map_collect(outs, i + 1)

\* ---- SpecBatch

\* Bound: the files of the run.
MaxFiles == 2

\* Bound: the worker threads.
MaxThreads == 2

\* A free thread takes a file no thread has taken: the closure is called.
TakeFile(t, f) ==
    /\ results = NoValue
    /\ threads[t].at = "idle"
    /\ outcomes[f].state = "pending"
    /\ \A u \in DOMAIN threads : threads[u].file # f
    /\ threads' = [threads EXCEPT ![t].file = f, ![t].at = "read"]
    /\ UNCHANGED <<files, semantic_analyzer, outcomes, reported, results>>
    /\ UNCHANGED <<configVars, filterVars, suppressVars, analyzeVars, classifyVars, reconcileVars, backendVars, runVars, extractVars, offsetVars, linterVars, coopVars>>

\* lint_file's read_to_string.  On failure the ? returns the error and the
\* closure prints it and yields None; on success analyze is entered.
LintFileRead(t) ==
    /\ threads[t].at = "read"
    /\ IF files[threads[t].file].readable
       THEN /\ threads' = [threads EXCEPT ![t] = [EnterAnalyze(threads[t]) EXCEPT !.at = "lines"]]
            /\ UNCHANGED <<outcomes, reported>>
       ELSE /\ outcomes' = [outcomes EXCEPT ![threads[t].file] = Err]
            /\ reported' = Append(reported, threads[t].file)
            /\ threads' = [threads EXCEPT ![t].file = 0, ![t].at = "idle"]
    /\ UNCHANGED <<files, semantic_analyzer, results>>
    /\ UNCHANGED <<configVars, filterVars, suppressVars, analyzeVars, classifyVars, reconcileVars, backendVars, runVars, extractVars, offsetVars, linterVars, coopVars>>

\* analyze up to the semantic analysis: the extension check, the directives
\* and the loop over the lines, which does not end when the classifier does
\* not.
AnalyzeLines(t) ==
    /\ threads[t].at = "lines"
    /\ LET file == files[threads[t].file]
           ls == lines(file.content)
       IN  threads' =
             IF file.ext # "rs"
             THEN [threads EXCEPT ![t].at = "filter"]
             ELSE IF \E idx \in 0..(Len(ls) - 1) : LineDiverges(file.content, ls[idx + 1], idx)
             THEN [threads EXCEPT ![t].at = "hung"]
             ELSE [threads EXCEPT
                      ![t].at = "semantic",
                      ![t].ignore_directives = parse_ignore_directives(file.content),
                      ![t].diagnostics = threads[t].diagnostics
                                         \o pattern_diagnostics(file.content, ls, 0)]
    /\ UNCHANGED <<files, semantic_analyzer, outcomes, reported, results>>
    /\ UNCHANGED <<configVars, filterVars, suppressVars, analyzeVars, classifyVars, reconcileVars, backendVars, runVars, extractVars, offsetVars, linterVars, coopVars>>

\* The rest of analyze: the semantic analysis and the retain.
AnalyzeSemantic(t) ==
    /\ threads[t].at = "semantic"
    /\ threads' = [threads EXCEPT
                      ![t].at = "filter",
                      ![t].diagnostics =
                          RetainNotIgnored(
                              threads[t].diagnostics
                              \o semantic_analyze(semantic_analyzer,
                                                  files[threads[t].file].content),
                              threads[t].ignore_directives)]
    /\ UNCHANGED <<files, semantic_analyzer, outcomes, reported, results>>
    /\ UNCHANGED <<configVars, filterVars, suppressVars, analyzeVars, classifyVars, reconcileVars, backendVars, runVars, extractVars, offsetVars, linterVars, coopVars>>

\* lint_file's Ok(self.filter_diagnostics(diagnostics)); the closure yields
\* Some((file, diagnostics)).
LintFileFilter(t) ==
    /\ threads[t].at = "filter"
    /\ outcomes' = [outcomes EXCEPT ![threads[t].file] =
                       Ok(threads[t].diagnostics,
                          filter_diagnostics(DefaultLintConfig, threads[t].diagnostics))]
    /\ threads' = [threads EXCEPT ![t].file = 0, ![t].at = "idle"]
    /\ UNCHANGED <<files, semantic_analyzer, reported, results>>
    /\ UNCHANGED <<configVars, filterVars, suppressVars, analyzeVars, classifyVars, reconcileVars, backendVars, runVars, extractVars, offsetVars, linterVars, coopVars>>

\* Every closure has returned: collect() builds results.
Collect ==
    /\ results = NoValue
    /\ \A f \in 1..Len(files) : outcomes[f].state # "pending"
    /\ results' = Some(filter_map_collect(outcomes, 1))
    /\ UNCHANGED <<files, semantic_analyzer, threads, outcomes, reported>>
    /\ UNCHANGED <<configVars, filterVars, suppressVars, analyzeVars, classifyVars, reconcileVars, backendVars, runVars, extractVars, offsetVars, linterVars, coopVars>>

NextBatch ==
    \/ \E t \in 1..MaxThreads, f \in 1..Len(files) : TakeFile(t, f)
    \/ \E t \in 1..MaxThreads : LintFileRead(t)
    \/ \E t \in 1..MaxThreads : AnalyzeLines(t)
    \/ \E t \in 1..MaxThreads : AnalyzeSemantic(t)
    \/ \E t \in 1..MaxThreads : LintFileFilter(t)
    \/ Collect

\* The run has its files (there is at least one) and its Linter; no file has
\* been linted.
InitBatch ==
    /\ workspace = DefaultConfig
    /\ crate_level = DefaultConfig
    /\ base = DefaultConfig
    /\ pc = "idle"
    /\ resolved = NoQuery
    /\ cargo_overrides = DefaultConfig
    /\ raw = <<>>
    /\ retained = NotDone
    /\ filtered = NotDone
    /\ directives = <<>>
    /\ ignored = NotAsked
    /\ content = <<>>
    /\ analysis = NotAnalyzed
    /\ scanned = <<>>
    /\ inside = NotScanned
    /\ block = [impl_content |-> {}, declared_bounds |-> <<>>, start_line |-> 0]
    /\ issues = NoIssues
    /\ client = NoClient
    /\ documents = NoValue
    /\ handlers = <<>>
    /\ published = <<>>
    /\ files \in UNION {[1..n -> BatchFiles] : n \in 1..MaxFiles}
    /\ semantic_analyzer \in {"silent", "reporting"}
    /\ threads = [t \in 1..MaxThreads |-> IdleThread]
    /\ outcomes = [f \in 1..Len(files) |-> Pending]
    /\ reported = <<>>
    /\ results = NoValue
    /\ manifest = NoManifest
    /\ run = NotRun
    /\ source = <<>>
    /\ extracted = NotExtracted
    /\ body = <<>>
    /\ located = NotLocated
    /\ linter = DefaultLintConfig
    /\ linted = NotLinted
    /\ blocked = 0

SpecBatch == InitBatch /\ [][NextBatch]_vars

(***************************************************************************)
(* The command-line run: main.rs:140-319, config.rs:116-160,               *)
(* output.rs:219-235                                                       *)
(***************************************************************************)

\* The keys and values the manifest tables of a run are written with.
ManifestKeys == {"all", "error_generic_unwrap"}
ManifestValues == {"allow", "deny", "off"}

\* merge_toml_table: the loop over the entries of a table.
RECURSIVE merge_toml_table(_, _)
merge_toml_table(config, table) ==
    IF DOMAIN table = {} THEN config
    ELSE LET key == CHOOSE k \in DOMAIN table : TRUE
         IN  merge_toml_table(merge_toml_entry(config, key, table[key]),
                              [k \in (DOMAIN table) \ {key} |-> table[k]])

\* as_table() on the value found for a lint table, then merge_toml_table;
\* a missing key and a value that is no table leave the config alone.
merge_if_table(config, t) ==
    IF t.is # "table" THEN config ELSE merge_toml_table(config, t.entries)

\* Result<CargoLintConfig>.
LoadOk(config) == [ok |-> TRUE, config |-> config, context |-> None]
LoadErr(context) == [ok |-> FALSE, config |-> DefaultConfig, context |-> context]

\* A load that takes the lint tables out of a manifest that does not parse.
load_lenient(m) ==
    IF m.kind = "unreadable" THEN LoadErr("reading")
    ELSE LoadOk(merge_if_table(merge_if_table(DefaultConfig, m.workspace), m.crate))

\* load_cargo_lint_config.
load_cargo_lint_config(m) ==
    IF m.kind = "unreadable" THEN LoadErr("reading")
    ELSE IF m.kind = "malformed" THEN LoadErr("parsing")
    ELSE LoadOk(merge_if_table(merge_if_table(DefaultConfig, m.workspace), m.crate))

\* discover_config.
discover_config(m) ==
    IF m.kind = "absent" THEN LoadOk(DefaultConfig) ELSE load_cargo_lint_config(m)

\* all_diagnostics: the (file, diagnostic) pairs of results, flattened.
RECURSIVE all_diagnostics(_)
all_diagnostics(rs) ==
    IF rs = <<>> THEN <<>>
    ELSE [i \in 1..Len(Head(rs).diagnostics) |->
             [file |-> Head(rs).file, diagnostic |-> Head(rs).diagnostics[i]]]
         \o all_diagnostics(Tail(rs))

\* The number of diagnostics of a severity.
CountSeverity(ds, severity) ==
    Cardinality({i \in 1..Len(ds) : ds[i].diagnostic.severity = severity})

\* DiagnosticSummary::from_diagnostics.
from_diagnostics(ds) ==
    [total |-> Len(ds),
     errors |-> CountSeverity(ds, "Error"), warnings |-> CountSeverity(ds, "Warning"),
     info |-> CountSeverity(ds, "Info"), hints |-> CountSeverity(ds, "Hint")]

\* display_count.
display_count(total, max_diagnostics) ==
    IF max_diagnostics > 0
    THEN (IF total < max_diagnostics THEN total ELSE max_diagnostics)
    ELSE total

\* The loop that prints the files in the formats other than Json: the
\* diagnostics shown from file i on, shown being the number already printed.
RECURSIVE print_files(_, _, _, _)
print_files(rs, i, shown, count) ==
    IF i > Len(rs) THEN <<>>
    ELSE IF rs[i].diagnostics = <<>> THEN print_files(rs, i + 1, shown, count)
    ELSE LET remaining == IF count > shown THEN count - shown ELSE 0
             to_show == IF Len(rs[i].diagnostics) < remaining
                        THEN Len(rs[i].diagnostics) ELSE remaining
         IN  IF remaining = 0 THEN <<>>
             ELSE [k \in 1..to_show |->
                      [file |-> rs[i].file, diagnostic |-> rs[i].diagnostics[k]]]
                  \o print_files(rs, i + 1, shown + to_show, count)

\* An exit status that looks at the errors only.
exit_code_errors_only(summary, error_on_warnings) ==
    IF summary.errors > 0 THEN 1 ELSE 0

\* The exit status of main.
exit_code(summary, error_on_warnings) ==
    IF summary.errors > 0 \/ (error_on_warnings /\ summary.warnings > 0) THEN 1 ELSE 0

\* ---- SpecRun

\* Bound: the entries of a lint table of the manifest.
MaxTableKeys == 1

\* Bound: the files of the run.
MaxRunFiles == 2

\* Bound: the value of --max-diagnostics.
MaxShown == 1

\* The lint tables with at most n entries.
LintTables(n) ==
    {NoTable, NotATable}
    \cup {Table(t) : t \in UNION {[ks -> ManifestValues] :
                                    ks \in {s \in SUBSET ManifestKeys : Cardinality(s) \in 1..n}}}

\* What analyze returns for a file of the run: nothing, or one match of a
\* catalog rule.
RunVectors ==
    {<<>>} \cup {<<RuleDiagnostic(RuleById(id), 0, 0, 1, <<RuleById(id).pattern>>)>> :
                    id \in RuleIds}

\* main up to the LintConfig: the manifest is looked for and loaded.  A
\* config that is not empty is taken and noted, a failure is warned about,
\* and in every other case the overrides are the default ones.
DiscoverConfig ==
    /\ run.stage = "start"
    /\ LET cfg == discover_config(manifest) IN
       run' = [run EXCEPT
                 !.stage = "configured",
                 !.cargo_overrides = IF cfg.ok /\ ~is_empty(cfg.config)
                                      THEN cfg.config ELSE DefaultConfig,
                 !.stderr = IF ~cfg.ok THEN <<"warning">>
                            ELSE IF ~is_empty(cfg.config) THEN <<"note">>
                            ELSE <<>>]
    /\ UNCHANGED manifest
    /\ UNCHANGED <<configVars, filterVars, suppressVars, analyzeVars, classifyVars, reconcileVars, backendVars, batchVars, extractVars, offsetVars, linterVars, coopVars>>

\* The files are linted: each file's vector goes through the Linter's
\* filter_diagnostics with the overrides of the run.
LintFiles(raws) ==
    /\ run.stage = "configured"
    /\ run' = [run EXCEPT
                 !.stage = "linted",
                 !.raws = raws,
                 !.results = [f \in 1..Len(raws) |->
                                 [file |-> f,
                                  diagnostics |->
                                      filter_diagnostics(
                                          LintConfig(<<>>, <<>>, "Hint", run.cargo_overrides),
                                          raws[f])]]]
    /\ UNCHANGED manifest
    /\ UNCHANGED <<configVars, filterVars, suppressVars, analyzeVars, classifyVars, reconcileVars, backendVars, batchVars, extractVars, offsetVars, linterVars, coopVars>>

\* The diagnostics are printed in the format asked for, at most
\* max_diagnostics of them when that is not 0.
Output(format, max_diagnostics) ==
    /\ run.stage = "linted"
    /\ LET all == all_diagnostics(run.results)
           count == display_count(Len(all), max_diagnostics)
       IN  run' = [run EXCEPT
                     !.stage = "shown",
                     !.format = format,
                     !.max_diagnostics = max_diagnostics,
                     !.displayed = IF format = "Json" THEN SubSeq(all, 1, count)
                                   ELSE print_files(run.results, 1, 0, count)]
    /\ UNCHANGED manifest
    /\ UNCHANGED <<configVars, filterVars, suppressVars, analyzeVars, classifyVars, reconcileVars, backendVars, batchVars, extractVars, offsetVars, linterVars, coopVars>>

\* main returns its exit status.
Exit(error_on_warnings) ==
    /\ run.stage = "shown"
    /\ run' = [run EXCEPT
                 !.stage = "exited",
                 !.error_on_warnings = error_on_warnings,
                 !.exit_code = exit_code(from_diagnostics(all_diagnostics(run.results)),
                                         error_on_warnings)]
    /\ UNCHANGED manifest
    /\ UNCHANGED <<configVars, filterVars, suppressVars, analyzeVars, classifyVars, reconcileVars, backendVars, batchVars, extractVars, offsetVars, linterVars, coopVars>>

NextRun ==
    \/ DiscoverConfig
    \/ \E raws \in UNION {[1..n -> RunVectors] : n \in 1..MaxRunFiles} : LintFiles(raws)
    \/ \E format \in {"Pretty", "Json"}, max_diagnostics \in 0..MaxShown :
            Output(format, max_diagnostics)
    \/ \E error_on_warnings \in BOOLEAN : Exit(error_on_warnings)

\* main has its arguments; the manifest is absent, unreadable, malformed or
\* parsed, the last two with their lint tables.
InitRun ==
    /\ workspace = DefaultConfig
    /\ crate_level = DefaultConfig
    /\ base = DefaultConfig
    /\ pc = "idle"
    /\ resolved = NoQuery
    /\ cargo_overrides = DefaultConfig
    /\ raw = <<>>
    /\ retained = NotDone
    /\ filtered = NotDone
    /\ directives = <<>>
    /\ ignored = NotAsked
    /\ content = <<>>
    /\ analysis = NotAnalyzed
    /\ scanned = <<>>
    /\ inside = NotScanned
    /\ block = [impl_content |-> {}, declared_bounds |-> <<>>, start_line |-> 0]
    /\ issues = NoIssues
    /\ client = NoClient
    /\ documents = NoValue
    /\ handlers = <<>>
    /\ published = <<>>
    /\ files = <<>>
    /\ semantic_analyzer = "silent"
    /\ threads = <<>>
    /\ outcomes = <<>>
    /\ reported = <<>>
    /\ results = NoValue
    /\ manifest \in {NoManifest, [NoManifest EXCEPT !.kind = "unreadable"]}
                    \cup [kind : {"malformed", "parsed"},
                          workspace : LintTables(MaxTableKeys),
                          crate : LintTables(MaxTableKeys)]
    /\ run = NotRun
    /\ source = <<>>
    /\ extracted = NotExtracted
    /\ body = <<>>
    /\ located = NotLocated
    /\ linter = DefaultLintConfig
    /\ linted = NotLinted
    /\ blocked = 0

SpecRun == InitRun /\ [][NextRun]_vars

(***************************************************************************)
(* Block extraction: .old/src/llm.rs:520-545                               *)
(***************************************************************************)

\* The loop over the characters of a line: the brace count and the started
\* flag after the line.
RECURSIVE count_braces(_, _, _)
count_braces(line, brace_count, started) ==
    IF line = <<>> THEN [brace_count |-> brace_count, started |-> started]
    ELSE IF Head(line) = "{" THEN count_braces(Tail(line), brace_count + 1, TRUE)
    ELSE IF Head(line) = "}" THEN count_braces(Tail(line), brace_count - 1, started)
    ELSE count_braces(Tail(line), brace_count, started)

\* The loop over the lines from index idx: the lines pushed to result.
RECURSIVE extract_lines(_, _, _, _)
extract_lines(ls, idx, brace_count, started) ==
    IF idx >= Len(ls) THEN <<>>
    ELSE LET after == count_braces(ls[idx + 1], brace_count, started)
         IN  IF after.started /\ after.brace_count = 0 THEN <<ls[idx + 1]>>
             ELSE <<ls[idx + 1]>>
                  \o extract_lines(ls, idx + 1, after.brace_count, after.started)

\* [&str]::join("\n").
RECURSIVE join(_)
join(ls) ==
    IF ls = <<>> THEN <<>>
    ELSE IF Len(ls) = 1 THEN ls[1]
    ELSE ls[1] \o <<Newline>> \o join(Tail(ls))

\* extract_impl_block.
extract_impl_block(text, start_line) ==
    join(extract_lines(lines(text), start_line, 0, FALSE))

\* ---- SpecExtract

\* Bound: the length of the content block extraction is run on.
MaxBlockLen == 4

\* The contents: braces, other text and line ends.
BlockTexts(m) == UNION {[1..n -> {"{", "}", "x", Newline}] : n \in 0..m}

\* One call of extract_impl_block from a line of the content.
ExtractImplBlock(start_line) ==
    /\ ~extracted.done
    /\ extracted' = [done |-> TRUE, start_line |-> start_line,
                     result |-> extract_impl_block(source, start_line)]
    /\ UNCHANGED source
    /\ UNCHANGED <<configVars, filterVars, suppressVars, analyzeVars, classifyVars, reconcileVars, backendVars, batchVars, runVars, offsetVars, linterVars, coopVars>>

NextExtract ==
    \E start_line \in 0..(Len(lines(source)) - 1) : ExtractImplBlock(start_line)

\* Some content, no block extracted.
InitExtract ==
    /\ workspace = DefaultConfig
    /\ crate_level = DefaultConfig
    /\ base = DefaultConfig
    /\ pc = "idle"
    /\ resolved = NoQuery
    /\ cargo_overrides = DefaultConfig
    /\ raw = <<>>
    /\ retained = NotDone
    /\ filtered = NotDone
    /\ directives = <<>>
    /\ ignored = NotAsked
    /\ content = <<>>
    /\ analysis = NotAnalyzed
    /\ scanned = <<>>
    /\ inside = NotScanned
    /\ block = [impl_content |-> {}, declared_bounds |-> <<>>, start_line |-> 0]
    /\ issues = NoIssues
    /\ client = NoClient
    /\ documents = NoValue
    /\ handlers = <<>>
    /\ published = <<>>
    /\ files = <<>>
    /\ semantic_analyzer = "silent"
    /\ threads = <<>>
    /\ outcomes = <<>>
    /\ reported = <<>>
    /\ results = NoValue
    /\ manifest = NoManifest
    /\ run = NotRun
    /\ source \in BlockTexts(MaxBlockLen)
    /\ extracted = NotExtracted
    /\ body = <<>>
    /\ located = NotLocated
    /\ linter = DefaultLintConfig
    /\ linted = NotLinted
    /\ blocked = 0

SpecExtract == InitExtract /\ [][NextExtract]_vars

\* ---- SpecOffset

\* Bound: the length of the content an offset is calculated in.
MaxOffsetLen == 4

\* Bound: the column of a match.
MaxCol == 2

\* The contents: text and the bytes of the line terminators.
OffsetTexts(m) == UNION {[1..n -> {"x", Return, Newline}] : n \in 0..m}

\* One call of calculate_byte_offset for a column of a line of the content.
CalculateByteOffset(line_idx, col) ==
    /\ ~located.done
    /\ located' = [done |-> TRUE, line_idx |-> line_idx, col |-> col,
                   result |-> calculate_byte_offset(body, line_idx, col)]
    /\ UNCHANGED body
    /\ UNCHANGED <<configVars, filterVars, suppressVars, analyzeVars, classifyVars, reconcileVars, backendVars, batchVars, runVars, extractVars, linterVars, coopVars>>

NextOffset ==
    \E line_idx \in 0..(Len(lines(body)) - 1), col \in 0..MaxCol :
        CalculateByteOffset(line_idx, col)

\* Some content, no offset calculated.
InitOffset ==
    /\ workspace = DefaultConfig
    /\ crate_level = DefaultConfig
    /\ base = DefaultConfig
    /\ pc = "idle"
    /\ resolved = NoQuery
    /\ cargo_overrides = DefaultConfig
    /\ raw = <<>>
    /\ retained = NotDone
    /\ filtered = NotDone
    /\ directives = <<>>
    /\ ignored = NotAsked
    /\ content = <<>>
    /\ analysis = NotAnalyzed
    /\ scanned = <<>>
    /\ inside = NotScanned
    /\ block = [impl_content |-> {}, declared_bounds |-> <<>>, start_line |-> 0]
    /\ issues = NoIssues
    /\ client = NoClient
    /\ documents = NoValue
    /\ handlers = <<>>
    /\ published = <<>>
    /\ files = <<>>
    /\ semantic_analyzer = "silent"
    /\ threads = <<>>
    /\ outcomes = <<>>
    /\ reported = <<>>
    /\ results = NoValue
    /\ manifest = NoManifest
    /\ run = NotRun
    /\ source = <<>>
    /\ extracted = NotExtracted
    /\ body \in OffsetTexts(MaxOffsetLen)
    /\ located = NotLocated
    /\ linter = DefaultLintConfig
    /\ linted = NotLinted
    /\ blocked = 0

SpecOffset == InitOffset /\ [][NextOffset]_vars

\* ---- SpecLinter

\* Bound: the overrides in the Linter's cargo_overrides.
MaxLinterOverrides == 1

\* Linter::lint_str on a content for which analyze returns the given vector:
\* the vector goes through filter_diagnostics.
LintStr(analyzed) ==
    /\ ~linted.done
    /\ linted' = [done |-> TRUE, analyzed |-> analyzed,
                  diagnostics |-> filter_diagnostics(linter, analyzed)]
    /\ UNCHANGED linter
    /\ UNCHANGED <<configVars, filterVars, suppressVars, analyzeVars, classifyVars, reconcileVars, backendVars, batchVars, runVars, extractVars, offsetVars, coopVars>>

NextLinter == \E analyzed \in RunVectors : LintStr(analyzed)

\* Linter::new(config) with some configuration.
InitLinter ==
    /\ workspace = DefaultConfig
    /\ crate_level = DefaultConfig
    /\ base = DefaultConfig
    /\ pc = "idle"
    /\ resolved = NoQuery
    /\ cargo_overrides = DefaultConfig
    /\ raw = <<>>
    /\ retained = NotDone
    /\ filtered = NotDone
    /\ directives = <<>>
    /\ ignored = NotAsked
    /\ content = <<>>
    /\ analysis = NotAnalyzed
    /\ scanned = <<>>
    /\ inside = NotScanned
    /\ block = [impl_content |-> {}, declared_bounds |-> <<>>, start_line |-> 0]
    /\ issues = NoIssues
    /\ client = NoClient
    /\ documents = NoValue
    /\ handlers = <<>>
    /\ published = <<>>
    /\ files = <<>>
    /\ semantic_analyzer = "silent"
    /\ threads = <<>>
    /\ outcomes = <<>>
    /\ reported = <<>>
    /\ results = NoValue
    /\ manifest = NoManifest
    /\ run = NotRun
    /\ source = <<>>
    /\ extracted = NotExtracted
    /\ body = <<>>
    /\ located = NotLocated
    /\ linter \in {LintConfig(categories, disabled_rules, min_severity, overrides) :
                      categories \in CategoryFilters, disabled_rules \in DisabledRules,
                      min_severity \in RuleSeverity,
                      overrides \in ConfigsUpTo(MaxLinterOverrides)}
    /\ linted = NotLinted
    /\ blocked = 0

SpecLinter == InitLinter /\ [][NextLinter]_vars

(***************************************************************************)
(* The backend under cooperative scheduling: .old/src/backend.rs:68-151    *)
(*                                                                         *)
(* The handler tasks of the server share one executor thread.  A task runs *)
(* from the point it is polled to its next await that is pending, which    *)
(* here is the publish; insert, get_mut and remove are synchronous calls   *)
(* that wait for the entry's read guards to be dropped without yielding,   *)
(* so a task that makes such a call while another task is suspended with   *)
(* a read guard keeps the thread.                                          *)
(***************************************************************************)

\* The handler at its publish, holding the diagnostics and the version of
\* the entry it has read.
AtPublish(handler, doc) ==
    [handler EXCEPT !.at = "publish",
                    !.doc_version = doc[1].version,
                    !.diagnostics = analyze(doc[1].content, "rs", <<>>).diags]

\* analyze_document polled with the given table entry: nothing to do for an
\* absent document, else the analysis under the read guard up to the publish.
analyze_document(handler, doc) ==
    IF doc = NoValue THEN [handler EXCEPT !.at = "done"] ELSE AtPublish(handler, doc)

\* ---- SpecCooperative

\* did_open is polled: insert waits for the read guards; then the task runs
\* on through analyze_document to its publish.
PollDidOpen(i) ==
    /\ blocked = 0
    /\ handlers[i].kind = "open" /\ handlers[i].at = "start"
    /\ IF ReadGuardHeld
       THEN /\ blocked' = i
            /\ UNCHANGED <<documents, handlers>>
       ELSE LET doc == Some(DocumentState(handlers[i].text[1], handlers[i].version))
            IN  /\ documents' = doc
                /\ handlers' = [handlers EXCEPT ![i] = analyze_document(handlers[i], doc)]
                /\ UNCHANGED blocked
    /\ UNCHANGED <<client, published>>
    /\ UNCHANGED <<configVars, filterVars, suppressVars, analyzeVars, classifyVars, reconcileVars, batchVars, runVars, extractVars, offsetVars, linterVars>>

\* did_change is polled: get_mut waits for the read guards; then the task
\* applies the last content change and runs on through analyze_document.
PollDidChange(i) ==
    /\ blocked = 0
    /\ handlers[i].kind = "change" /\ handlers[i].at = "start"
    /\ IF ReadGuardHeld
       THEN /\ blocked' = i
            /\ UNCHANGED <<documents, handlers>>
       ELSE LET doc == IF documents # NoValue /\ handlers[i].text # NoValue
                       THEN Some(DocumentState(handlers[i].text[1], handlers[i].version))
                       ELSE documents
            IN  /\ documents' = doc
                /\ handlers' = [handlers EXCEPT ![i] = analyze_document(handlers[i], doc)]
                /\ UNCHANGED blocked
    /\ UNCHANGED <<client, published>>
    /\ UNCHANGED <<configVars, filterVars, suppressVars, analyzeVars, classifyVars, reconcileVars, batchVars, runVars, extractVars, offsetVars, linterVars>>

\* did_save is polled: analyze_document takes a read guard beside the ones
\* held.
PollDidSave(i) ==
    /\ blocked = 0
    /\ handlers[i].kind = "save" /\ handlers[i].at = "analyze"
    /\ handlers' = [handlers EXCEPT ![i] = analyze_document(handlers[i], documents)]
    /\ UNCHANGED <<client, documents, published, blocked>>
    /\ UNCHANGED <<configVars, filterVars, suppressVars, analyzeVars, classifyVars, reconcileVars, batchVars, runVars, extractVars, offsetVars, linterVars>>

\* did_close is polled: remove waits for the read guards; then the task is
\* at its publish of the empty list.
PollDidClose(i) ==
    /\ blocked = 0
    /\ handlers[i].kind = "close" /\ handlers[i].at = "start"
    /\ IF ReadGuardHeld
       THEN /\ blocked' = i
            /\ UNCHANGED <<documents, handlers>>
       ELSE /\ documents' = NoValue
            /\ handlers' = [handlers EXCEPT ![i].at = "clear"]
            /\ UNCHANGED blocked
    /\ UNCHANGED <<client, published>>
    /\ UNCHANGED <<configVars, filterVars, suppressVars, analyzeVars, classifyVars, reconcileVars, batchVars, runVars, extractVars, offsetVars, linterVars>>

\* A publish has completed and its task is polled again: the notification
\* is out, the read guard of analyze_document is dropped, the handler
\* returns.
CompletePublish(i) ==
    /\ blocked = 0
    /\ handlers[i].at \in {"publish", "clear"}
    /\ published' = Append(published,
                           IF handlers[i].at = "clear"
                           THEN PublishedDiagnostics(<<>>, NoValue)
                           ELSE PublishedDiagnostics(handlers[i].diagnostics,
                                                     Some(handlers[i].doc_version)))
    /\ handlers' = [handlers EXCEPT ![i].at = "done"]
    /\ UNCHANGED <<client, documents, blocked>>
    /\ UNCHANGED <<configVars, filterVars, suppressVars, analyzeVars, classifyVars, reconcileVars, batchVars, runVars, extractVars, offsetVars, linterVars>>

\* The steps of the handler tasks.
TaskStep ==
    \E i \in 1..Len(handlers) :
        \/ PollDidOpen(i)
        \/ PollDidChange(i)
        \/ PollDidSave(i)
        \/ PollDidClose(i)
        \/ CompletePublish(i)

NextCooperative ==
    \/ \E text \in DocTexts : ClientDidOpen(text)
    \/ \E text \in {NoValue} \cup {Some(t) : t \in DocTexts} : ClientDidChange(text)
    \/ ClientDidSave
    \/ ClientDidClose
    \/ \E i \in 1..Len(handlers) : PollDidOpen(i)
    \/ \E i \in 1..Len(handlers) : PollDidChange(i)
    \/ \E i \in 1..Len(handlers) : PollDidSave(i)
    \/ \E i \in 1..Len(handlers) : PollDidClose(i)
    \/ \E i \in 1..Len(handlers) : CompletePublish(i)

\* QwasrBackend::new: no document is open, no task is running.
InitCooperative ==
    /\ workspace = DefaultConfig
    /\ crate_level = DefaultConfig
    /\ base = DefaultConfig
    /\ pc = "idle"
    /\ resolved = NoQuery
    /\ cargo_overrides = DefaultConfig
    /\ raw = <<>>
    /\ retained = NotDone
    /\ filtered = NotDone
    /\ directives = <<>>
    /\ ignored = NotAsked
    /\ content = <<>>
    /\ analysis = NotAnalyzed
    /\ scanned = <<>>
    /\ inside = NotScanned
    /\ block = [impl_content |-> {}, declared_bounds |-> <<>>, start_line |-> 0]
    /\ issues = NoIssues
    /\ client = NoClient
    /\ documents = NoValue
    /\ handlers = <<>>
    /\ published = <<>>
    /\ files = <<>>
    /\ semantic_analyzer = "silent"
    /\ threads = <<>>
    /\ outcomes = <<>>
    /\ reported = <<>>
    /\ results = NoValue
    /\ manifest = NoManifest
    /\ run = NotRun
    /\ source = <<>>
    /\ extracted = NotExtracted
    /\ body = <<>>
    /\ located = NotLocated
    /\ linter = DefaultLintConfig
    /\ linted = NotLinted
    /\ blocked = 0

\* Every task that can take a step is polled in the end, and every publish
\* completes.
SpecCooperative == InitCooperative /\ [][NextCooperative]_vars /\ WF_vars(TaskStep)

(***************************************************************************)
(* Properties                                                              *)
(***************************************************************************)

\* C1: for every configuration and every (rule id, category) pair,
\* effective_level returns the rule-level entry of the rule id if there is
\* one; otherwise the category-level entry of the category if there is one;
\* otherwise the global `all` level if it is set; and None when none of the
\* three is set.
C1_EffectiveLevelPrecedence ==
    resolved.level # NotYet =>
        LET r == resolved.rule_id
            c == resolved.category
        IN  /\ r \in DOMAIN workspace.rules => resolved.level = workspace.rules[r]
            /\ r \notin DOMAIN workspace.rules /\ c \in DOMAIN workspace.categories
                   => resolved.level = workspace.categories[c]
            /\ r \notin DOMAIN workspace.rules /\ c \notin DOMAIN workspace.categories
               /\ workspace.all # None
                   => resolved.level = workspace.all
            /\ r \notin DOMAIN workspace.rules /\ c \notin DOMAIN workspace.categories
               /\ workspace.all = None
                   => resolved.level = None

\* C1's case: all three layers are set, with three different levels, and the
\* call asks for the rule and the category that have entries.
C1_Witness ==
    /\ resolved.level # NotYet
    /\ resolved.rule_id \in DOMAIN workspace.rules
    /\ resolved.category \in DOMAIN workspace.categories
    /\ workspace.all # None
    /\ workspace.rules[resolved.rule_id] # workspace.categories[resolved.category]
    /\ workspace.categories[resolved.category] # workspace.all
    /\ workspace.rules[resolved.rule_id] # workspace.all

\* C2: after base.merge(overlay) the global level is overlay's when overlay
\* sets one and base's otherwise; for every category key and every rule key
\* the merged entry is overlay's value when overlay has the key and base's
\* value otherwise; no key appears that was in neither.
C2_MergeOverlayWins ==
    pc = "merged" =>
        /\ workspace.all = (IF crate_level.all # None THEN crate_level.all ELSE base.all)
        /\ DOMAIN workspace.categories
               = (DOMAIN base.categories) \cup (DOMAIN crate_level.categories)
        /\ DOMAIN workspace.rules = (DOMAIN base.rules) \cup (DOMAIN crate_level.rules)
        /\ \A k \in DOMAIN workspace.categories :
               workspace.categories[k] = (IF k \in DOMAIN crate_level.categories
                                          THEN crate_level.categories[k]
                                          ELSE base.categories[k])
        /\ \A k \in DOMAIN workspace.rules :
               workspace.rules[k] = (IF k \in DOMAIN crate_level.rules
                                     THEN crate_level.rules[k]
                                     ELSE base.rules[k])

\* C2's case: a merge in which a key of both configs holds different levels
\* and another key is held by the base alone.
C2_Witness ==
    /\ pc = "merged"
    /\ \E k \in (DOMAIN base.rules) \cap (DOMAIN crate_level.rules) :
           base.rules[k] # crate_level.rules[k]
    /\ \E k \in DOMAIN base.categories : k \notin DOMAIN crate_level.categories

\* C3: a diagnostic whose effective level resolves to allow is never in the
\* Linter's output, whatever the minimum severity, the disabled-rule list and
\* the category allow-list are.
C3_AllowedNeverInOutput ==
    filtered.done =>
        \A i \in 1..Len(filtered.diags) :
            effective_level(cargo_overrides, filtered.diags[i].rule_id,
                            filtered.diags[i].category) # "allow"

\* C3's case: the filter ran on a vector holding a diagnostic whose level
\* resolves to allow next to one that it let through.
C3_Witness ==
    /\ filtered.done
    /\ filtered.diags # <<>>
    /\ \E i \in 1..Len(retained.diags) :
           effective_level(cargo_overrides, retained.diags[i].rule_id,
                           retained.diags[i].category) = "allow"

\* Two diagnostics equal in everything but, possibly, the severity.
SameButSeverity(a, b) ==
    /\ a.line = b.line
    /\ a.column = b.column
    /\ a.end_column = b.end_column
    /\ a.rule_id = b.rule_id
    /\ a.rule_name = b.rule_name
    /\ a.category = b.category
    /\ a.message = b.message
    /\ a.fix_template = b.fix_template
    /\ a.source_snippet = b.source_snippet

\* out is in, with elements dropped and severities possibly changed, in the
\* same order.
RECURSIVE SubsequenceButSeverity(_, _)
SubsequenceButSeverity(out, in) ==
    IF out = <<>> THEN TRUE
    ELSE IF in = <<>> THEN FALSE
    ELSE IF SameButSeverity(Head(out), Head(in))
         THEN SubsequenceButSeverity(Tail(out), Tail(in))
    ELSE SubsequenceButSeverity(out, Tail(in))

\* out is in with elements dropped, in the same order.
RECURSIVE Subsequence(_, _)
Subsequence(out, in) ==
    IF out = <<>> THEN TRUE
    ELSE IF in = <<>> THEN FALSE
    ELSE IF Head(out) = Head(in) THEN Subsequence(Tail(out), Tail(in))
    ELSE Subsequence(out, Tail(in))

\* C4: every diagnostic that survives suppression and configuration
\* resolution equals one raw diagnostic of the analysis in everything but the
\* severity, and the survivors keep the order of the raw vector.
C4_SurvivorsAreRawButSeverity ==
    /\ retained.done => Subsequence(retained.diags, raw)
    /\ filtered.done => SubsequenceButSeverity(filtered.diags, raw)

\* C4's case: of three raw diagnostics one was suppressed and two came out
\* of the filter, one of them with a rewritten severity.
C4_Witness ==
    /\ filtered.done
    /\ Len(raw) = 3
    /\ Len(retained.diags) = 2
    /\ Len(filtered.diags) = 2
    /\ \E i \in 1..2 : filtered.diags[i].severity # retained.diags[i].severity

\* The source text holds no quote, slash or star: no unit of it is inside a
\* string literal or a comment.
PlainCode(text) ==
    \A i \in 1..Len(text) : text[i] \notin {Quote, "/", "*"}

\* analyze returned for a source file.
Returned == analysis.status = "returned" /\ analysis.ext = "rs"

\* The number of diagnostics of a rule in a vector.
CountRule(diags, rule_id) ==
    Cardinality({i \in 1..Len(diags) : diags[i].rule_id = rule_id})

\* C5: analyze emits exactly one error_generic_unwrap diagnostic for each
\* unwrap-style call outside every string literal and comment, for any number
\* of calls on one line; stated for the texts that hold no string, no comment
\* and no directive.
C5_OneDiagnosticPerUnwrap ==
    Returned /\ PlainCode(content) /\ parse_ignore_directives(content) = <<>> =>
        CountRule(analysis.diags, "error_generic_unwrap")
            = Cardinality({i \in 1..Len(content) : content[i] = "u"})

\* The rule ids of the pattern matcher: the catalog rules, the forbidden
\* constructs and the forbidden crates.
PatternRuleIds ==
    {RuleSetRules[n].id : n \in 1..Len(RuleSetRules)}
    \cup {ForbiddenPatterns[n].id : n \in 1..Len(ForbiddenPatterns)}
    \cup {"forbidden_crate_tokio"}

\* C6: no diagnostic of the pattern matcher (catalog rule, forbidden
\* construct or forbidden crate) has its match inside a string literal.
C6_NoMatchInsideString ==
    Returned =>
        \A i \in 1..Len(analysis.diags) :
            analysis.diags[i].rule_id \in PatternRuleIds =>
                ~is_inside_string_literal_at_offset(
                    content,
                    calculate_byte_offset(content, analysis.diags[i].line - 1,
                                          analysis.diags[i].column))

\* The column lies after a "//" of the line.
AfterLineComment(line, column) ==
    \E c \in 1..Len(line) :
        c + 1 <= column /\ line[c] = "/" /\ line[c + 1] = "/"

\* C7: no diagnostic is emitted for a match inside comment content, neither
\* on a line that is wholly a comment nor inside a trailing line comment;
\* stated for the texts that hold no quote, where every "//" opens a comment.
C7_NoMatchInsideComment ==
    Returned /\ (\A i \in 1..Len(content) : content[i] # Quote) =>
        \A i \in 1..Len(analysis.diags) :
            analysis.diags[i].rule_id \in PatternRuleIds =>
                ~AfterLineComment(lines(content)[analysis.diags[i].line],
                                  analysis.diags[i].column)

\* The text holds a file-level suppress-all directive.
HasFileLevelAllowAll(text) ==
    \E i \in 1..(Len(text) - 1) : text[i] = "#" /\ text[i + 1] = "D"

\* C8: if a file-level suppress-all directive appears on any line of the
\* content, at any position, analyze returns an empty vector.
C8_FileLevelAllowAllEmpties ==
    Returned /\ HasFileLevelAllowAll(content) => analysis.diags = <<>>

\* The only directive names the rule of the call, line-level.
OneLineDirectiveForRule ==
    /\ Len(directives) = 1
    /\ ~directives[1].is_file_level
    /\ directives[1].rules = SomeRules({ignored.rule_id})

\* C9 as stated: a line-level directive naming rule R on line d suppresses a
\* diagnostic of R on line d+k for every k in 0..10, and none on line d+k for
\* k >= 11.
C9_WindowFromSameLine ==
    ignored.done /\ OneLineDirectiveForRule =>
        LET k == ignored.diagnostic_line - directives[1].line IN
        /\ (0 <= k /\ k <= 10) => ignored.result
        /\ k >= 11 => ~ignored.result

\* C9 amended: a line-level directive naming rule R on line d suppresses a
\* diagnostic of R on line d+k for every k in 1..10, whatever other
\* directives there are; alone, it suppresses none on its own line (k = 0)
\* and none on line d+k for k >= 11.
C9_WindowAfterDirective ==
    ignored.done =>
        /\ \A i \in 1..Len(directives) :
               /\ ~directives[i].is_file_level
               /\ directives[i].rules # AllRules
               /\ ignored.rule_id \in directives[i].rules[1]
               /\ 1 <= ignored.diagnostic_line - directives[i].line
               /\ ignored.diagnostic_line - directives[i].line <= 10
               => ignored.result
        /\ OneLineDirectiveForRule =>
               LET k == ignored.diagnostic_line - directives[1].line IN
               (k = 0 \/ k >= 11) => ~ignored.result

\* C9's case: the diagnostic is on the last line of the window.
C9_Witness ==
    /\ ignored.done
    /\ OneLineDirectiveForRule
    /\ ignored.diagnostic_line - directives[1].line = 10
    /\ ignored.result

\* Two rule names that differ even when letter case is ignored.
AnotherRule(a, b) == to_lowercase(a) # to_lowercase(b)

\* C10: should_suppress(line, rule, directives) is true if and only if some
\* file-level directive allows the rule, or some line-level directive that
\* allows the rule lies strictly before the line and within the 10-line
\* window; a directive naming only rule R never suppresses a diagnostic of
\* another rule, nor one located before the directive.
C10_ShouldSuppressIff ==
    ignored.done =>
        LET line == ignored.diagnostic_line
            rule == ignored.rule_id
            D == {directives[i] : i \in 1..Len(directives)}
        IN  /\ ignored.result <=>
                  \/ \E d \in D : d.is_file_level /\ allows(d, rule)
                  \/ \E d \in D : /\ ~d.is_file_level
                                  /\ allows(d, rule)
                                  /\ d.line < line
                                  /\ line - d.line <= 10
            /\ \A R \in DirectiveNames :
                   Len(directives) = 1 /\ directives[1].rules = SomeRules({R}) =>
                       /\ AnotherRule(R, rule) => ~ignored.result
                       /\ ~directives[1].is_file_level /\ line <= directives[1].line
                              => ~ignored.result

\* C10's case: two line-level directives, the diagnostic in the window of one
\* that names its rule and after one that names only another rule.
C10_Witness ==
    /\ ignored.done
    /\ ignored.result
    /\ Len(directives) = 2
    /\ \A i \in 1..2 : ~directives[i].is_file_level /\ directives[i].line < ignored.diagnostic_line
    /\ \E i \in 1..2 : directives[i].rules = SomeRules({"wasm_std_fs"})
    /\ ignored.rule_id = "error_generic_unwrap"

\* The string regions a left-to-right scan of the text finds from index i,
\* each as the first and last index of its content (delimiters excluded):
\* a line comment is skipped to its end, a raw string runs from its opening
\* quote to the quote followed by its marks, a plain string to its closing
\* quote with escapes skipped; an opener that is never closed is no region.
RECURSIVE StringRegions(_, _)
StringRegions(text, i) ==
    IF i >= Len(text) THEN {}
    ELSE IF i + 1 < Len(text) /\ Byte(text, i) = "/" /\ Byte(text, i + 1) = "/"
         THEN StringRegions(text, CommentEnd(text, i))
    ELSE LET j == HashRunEnd(text, i + 1)
             marks == j - (i + 1)
         IN
         IF Byte(text, i) = "r" /\ j < Len(text) /\ Byte(text, j) = Quote
         THEN LET k == RawStringEnd(text, j + 1, marks) IN
              IF k = -1 THEN {}
              ELSE {[first |-> j + 1, last |-> k - marks - 2]}
                   \cup StringRegions(text, k)
         ELSE IF Byte(text, i) = Quote
         THEN LET close == StringEnd(text, i + 1) IN
              IF close = -1 THEN {}
              ELSE {[first |-> i + 1, last |-> close - 1]}
                   \cup StringRegions(text, close + 1)
         ELSE StringRegions(text, i + 1)

\* C11: the classifier returns true exactly when the offset lies strictly
\* inside a string region found by the left-to-right scan, the opening and
\* closing delimiter characters excluded, and false at every other offset,
\* the offsets inside a line comment included.
C11_TrueExactlyInsideRegion ==
    inside.done /\ inside.result # "diverges" =>
        (inside.result = "true" <=>
            \E g \in StringRegions(scanned, 0) :
                g.first <= inside.byte_offset /\ inside.byte_offset <= g.last)

\* The number of marks that follow index start.
MarksAt(text, start) ==
    CHOOSE n \in 0..Len(text) :
        /\ \A h \in 1..n : start + h < Len(text) /\ Byte(text, start + h) = "#"
        /\ ~(start + n + 1 < Len(text) /\ Byte(text, start + n + 1) = "#")

\* Index c holds a quote followed by `marks` marks.
Terminates(text, c, marks) ==
    /\ c < Len(text)
    /\ Byte(text, c) = Quote
    /\ \A h \in 1..marks : c + h < Len(text) /\ Byte(text, c + h) = "#"

\* The raw strings of the text that open with at least one mark in live code
\* (nothing before the opener opens a string or a comment) and are
\* terminated: r at index start, the opening quote at index open, and close
\* the first index after open that holds a quote followed by the marks.
TerminatedRawStrings(text) ==
    {[start |-> s, marks |-> MarksAt(text, s), open |-> s + MarksAt(text, s) + 1,
      close |-> CHOOSE c \in (s + MarksAt(text, s) + 2)..Len(text) :
                    /\ Terminates(text, c, MarksAt(text, s))
                    /\ \A b \in (s + MarksAt(text, s) + 2)..(c - 1) :
                           ~Terminates(text, b, MarksAt(text, s))] :
     s \in {s \in 0..(Len(text) - 1) :
               /\ Byte(text, s) = "r"
               /\ MarksAt(text, s) >= 1
               /\ s + MarksAt(text, s) + 1 < Len(text)
               /\ Byte(text, s + MarksAt(text, s) + 1) = Quote
               /\ \E c \in (s + MarksAt(text, s) + 2)..Len(text) :
                      Terminates(text, c, MarksAt(text, s))
               /\ \A h \in 0..(s - 1) : Byte(text, h) \notin {Quote, "/"}}}

\* C12: in a raw string opened with N marks, a quote followed by fewer than
\* N marks does not end the region: every offset between such an inner quote
\* and the terminator is classified in-string, and the first offset after
\* the terminator is not.
C12_RawStringNeedsAllMarks ==
    inside.done =>
        \A g \in TerminatedRawStrings(scanned) :
            /\ \A q \in (g.open + 1)..(g.close - 1) :
                   Byte(scanned, q) = Quote
                   /\ q < inside.byte_offset /\ inside.byte_offset < g.close
                       => inside.result = "true"
            /\ (\E q \in (g.open + 1)..(g.close - 1) : Byte(scanned, q) = Quote)
               /\ inside.byte_offset = g.close + g.marks + 1
                   => inside.result = "false"

\* C12's case: an offset between an inner quote and the terminator of a raw
\* string, and the classifier's answer for it.
C12_Witness ==
    /\ inside.done
    /\ inside.result = "true"
    /\ \E g \in TerminatedRawStrings(scanned) :
           \E q \in (g.open + 1)..(g.close - 1) :
               /\ Byte(scanned, q) = Quote
               /\ q + 1 < inside.byte_offset
               /\ inside.byte_offset < g.close

\* C13: for every content and every byte offset, an unterminated plain
\* string, an unterminated raw string and delimiters that never balance
\* included, the classifier terminates and returns a result.
C13_ClassifierReturns ==
    inside.done => inside.result \in {"true", "false"}

\* The call texts that are a call-shape of the trait: the texts its usage
\* pattern matches.
ShapesOf(trait) ==
    {s \in CallShapes : Contains(detect_provider_usage({s}), trait)}

\* The call texts of a content.
CallsIn(impl_content) == impl_content \cap CallShapes

\* The issues of the vector with a code that name the trait.
IssuesNaming(code, trait) ==
    {i \in 1..Len(issues.issues) :
        issues.issues[i].code = code /\ issues.issues[i].subject = trait}

\* C14: for a block that declares the bounds {A, B} and whose body contains
\* only A's call-shape, the reconciliation yields exactly one Warning naming
\* B as unused and no diagnostic naming A, for every pair of distinct known
\* capabilities A and B.
C14_UnusedBoundWarned ==
    issues.done =>
        \A A \in ProviderTraits : \A B \in ProviderTraits \ {A} :
            /\ block.declared_bounds \in {<<A, B>>, <<B, A>>}
            /\ CallsIn(block.impl_content) # {}
            /\ CallsIn(block.impl_content) \subseteq ShapesOf(A)
            => /\ Cardinality(IssuesNaming("handler_unused_provider_bound", B)) = 1
               /\ \A i \in IssuesNaming("handler_unused_provider_bound", B) :
                      issues.issues[i].severity = "Warning"
               /\ \A i \in 1..Len(issues.issues) : issues.issues[i].subject # A

\* C15: for a block that declares the bounds {A} and whose body contains B's
\* call-shape, B not declared, the reconciliation yields exactly one Error
\* naming B as a missing bound; and a block that declares exactly the
\* capabilities whose call-shapes appear in its body (every call in the body
\* is a call-shape of a declared capability, every declared capability has a
\* call-shape in the body) yields no unused-bound and no missing-bound
\* diagnostic.
C15_MissingBoundReported ==
    issues.done =>
        /\ \A A \in ProviderTraits : \A B \in ProviderTraits \ {A} :
               /\ block.declared_bounds = <<A>>
               /\ CallsIn(block.impl_content) \cap ShapesOf(B) # {}
               /\ CallsIn(block.impl_content) \cap ShapesOf(B) \cap ShapesOf(A) = {}
               => /\ Cardinality(IssuesNaming("handler_missing_provider_bound", B)) = 1
                  /\ \A i \in IssuesNaming("handler_missing_provider_bound", B) :
                         issues.issues[i].severity = "Error"
        /\ LET declared == {block.declared_bounds[n] : n \in 1..Len(block.declared_bounds)} IN
           /\ declared \subseteq ProviderTraits
           /\ \A s \in CallsIn(block.impl_content) : \E t \in declared : s \in ShapesOf(t)
           /\ \A t \in declared : CallsIn(block.impl_content) \cap ShapesOf(t) # {}
           => \A i \in 1..Len(issues.issues) :
                  issues.issues[i].code \notin {"handler_unused_provider_bound",
                                                "handler_missing_provider_bound"}

\* C16: analyze returns an empty list for every path whose extension is not
\* rs, a path with no extension included, whatever the content contains.
C16_OnlySourceFilesAnalyzed ==
    analysis.status # "idle" /\ analysis.ext # "rs" =>
        analysis.status = "returned" /\ analysis.diags = <<>>

\* C16's case: a path without extension and a content that yields a
\* diagnostic when it is analyzed as a source file.
C16_Witness ==
    /\ analysis.status = "returned"
    /\ analysis.ext = None
    /\ analyze(content, "rs", <<>>).status = "returned"
    /\ analyze(content, "rs", <<>>).diags # <<>>

\* The versions of the publishes that carry one, in the order sent.
PublishedVersions == SelectSeq(published, LAMBDA p : p.version # NoValue)

\* C17: whatever the interleaving of the open, change and save handlers of a
\* document, a publish never carries an older version than a publish sent
\* before it.
C17_NoOlderVersionAfterNewer ==
    \A i, j \in 1..Len(PublishedVersions) :
        i < j => PublishedVersions[i].version[1] <= PublishedVersions[j].version[1]

\* C18: a revision of a document has at most one analysis result published:
\* no two publishes carry the same version.
C18_OnePublishPerRevision ==
    \A i, j \in 1..Len(PublishedVersions) :
        PublishedVersions[i].version = PublishedVersions[j].version => i = j

\* What analyze returns for a file of the run, computed from the file's
\* content and path alone.
AnalyzeOf(file) ==
    analyze(file.content, file.ext,
            semantic_analyze(semantic_analyzer, file.content)).diags

ResultsOf(f) == SelectSeq(results[1], LAMBDA r : r.file = f)

\* C20: when the run has collected its results, every file that could be read
\* has its diagnostics in them, once and in the order of the files, and every
\* file whose read failed has no entry and has had its error printed once.
C20_ReadFailureSkipsOneFile ==
    results # NoValue =>
        /\ \A f \in 1..Len(files) :
               IF files[f].readable
               THEN /\ ResultsOf(f) =
                           <<[file |-> f,
                              diagnostics |-> filter_diagnostics(DefaultLintConfig,
                                                                 AnalyzeOf(files[f]))]>>
                    /\ \A i \in 1..Len(reported) : reported[i] # f
               ELSE /\ ResultsOf(f) = <<>>
                    /\ Cardinality({i \in 1..Len(reported) : reported[i] = f}) = 1
        /\ \A i, j \in 1..Len(results[1]) :
               i < j => results[1][i].file < results[1][j].file

\* A run in which the read of the first file failed has collected the
\* diagnostics of a later file.
C20_Witness ==
    /\ results # NoValue
    /\ ~files[1].readable
    /\ \E i \in 1..Len(results[1]) : results[1][i].diagnostics # <<>>

\* The manifest of the run could not be read or parsed.
ManifestFailed == manifest.kind \in {"unreadable", "malformed"}

\* C21: when the manifest cannot be read or parsed, the run prints one
\* warning, goes on with the empty override configuration, and the lint then
\* returns every diagnostic with its built-in severity.
C21_ConfigFailureKeepsSeverities ==
    (ManifestFailed /\ run.stage # "start") =>
        /\ run.stderr = <<"warning">>
        /\ is_empty(run.cargo_overrides)
        /\ run.stage # "configured" =>
               \A f \in 1..Len(run.raws) : run.results[f].diagnostics = run.raws[f]

\* A manifest that does not parse, with an override in its crate table, and
\* the lint has returned a diagnostic.
C21_Witness ==
    /\ manifest.kind = "malformed"
    /\ manifest.crate.is = "table"
    /\ run.stage = "linted"
    /\ \E f \in 1..Len(run.results) : run.results[f].diagnostics # <<>>

\* The running balance of opening minus closing braces over the lines from
\* index idx, character by character: the index of the line on which the
\* balance returns to zero after having been positive, or the last line
\* when it never does.
RECURSIVE BalancedEnd(_, _, _, _, _)
BalancedEnd(ls, idx, pos, balance, positive) ==
    IF idx >= Len(ls) THEN Len(ls) - 1
    ELSE IF pos > Len(ls[idx + 1]) THEN BalancedEnd(ls, idx + 1, 1, balance, positive)
    ELSE LET b == CASE ls[idx + 1][pos] = "{" -> balance + 1
                    [] ls[idx + 1][pos] = "}" -> balance - 1
                    [] OTHER -> balance
         IN  IF b = 0 /\ positive /\ ls[idx + 1][pos] = "}" THEN idx
             ELSE BalancedEnd(ls, idx, pos + 1, b, positive \/ b > 0)

\* C22: the block extracted from a header line runs to the line on which the
\* running balance returns to zero after having been positive, a zero
\* balance that was never positive before does not end it, and it runs to
\* the end of the content when the balance never returns to zero.
C22_BlockEndsAtBalance ==
    extracted.done =>
        extracted.result =
            join(SubSeq(lines(source), extracted.start_line + 1,
                        BalancedEnd(lines(source), extracted.start_line, 1, 0, FALSE) + 1))

\* A rule set contains the rule id compared without regard to letter case.
ContainsIgnoringCase(rules, rule_id) ==
    \E name \in rules : to_lowercase(name) = to_lowercase(rule_id)

\* C23: a directive with a rule set allows a rule id whenever the set
\* contains the id compared case-insensitively, and a directive without a
\* set allows every rule id: under one file-level directive a diagnostic is
\* ignored exactly in these cases.
C23_AllowsIgnoresCase ==
    (ignored.done /\ Len(directives) = 1 /\ directives[1].is_file_level) =>
        (ignored.result <=>
            \/ directives[1].rules = AllRules
            \/ ContainsIgnoringCase(directives[1].rules[1], ignored.rule_id))

\* The byte index (0-based) at which line line_idx of the text starts: the
\* index after the line_idx-th "\n".
RECURSIVE LineStart(_, _, _)
LineStart(text, line_idx, from) ==
    IF line_idx = 0 THEN from
    ELSE LineStart(text, line_idx - 1, IndexFrom(text, Newline, from + 1))

\* C24: calculate_byte_offset(content, line_idx, col) is the byte index in
\* the whole content of column col of line line_idx, the column clamped to
\* the line's length, whether the lines end in LF or in CRLF.
C24_OffsetIsBytePosition ==
    located.done =>
        LET line == lines(body)[located.line_idx + 1]
            col == IF located.col < Len(line) THEN located.col ELSE Len(line)
        IN  located.result = LineStart(body, located.line_idx, 0) + col

\* The filtered diagnostics of all files of the run.
RunDiagnostics == all_diagnostics(run.results)

\* C25: the run exits with failure exactly when the filtered diagnostics of
\* all files hold an Error, or hold a Warning while error-on-warnings is set,
\* whatever the display limit and the output format.
C25_ExitStatusFromAllDiagnostics ==
    run.stage = "exited" =>
        (run.exit_code = 1 <=>
            \/ \E i \in 1..Len(RunDiagnostics) : RunDiagnostics[i].diagnostic.severity = "Error"
            \/ /\ run.error_on_warnings
               /\ \E i \in 1..Len(RunDiagnostics) :
                      RunDiagnostics[i].diagnostic.severity = "Warning")

\* The display limit has cut off the only Error: the diagnostics shown hold
\* none, error-on-warnings is not set, and the run has failed.
C25_Witness ==
    /\ run.stage = "exited"
    /\ run.exit_code = 1
    /\ ~run.error_on_warnings
    /\ Len(RunDiagnostics) > Len(run.displayed)
    /\ \A i \in 1..Len(run.displayed) : run.displayed[i].diagnostic.severity # "Error"

\* The level the Linter's overrides give a diagnostic, None without one.
LinterLevel(d) ==
    IF is_empty(linter.cargo_overrides) THEN None
    ELSE effective_level(linter.cargo_overrides, d.rule_id, d.category)

\* The diagnostic passes the --disable and --categories filters.
PassesRuleFilters(d) ==
    /\ \A i \in 1..Len(linter.disabled_rules) : linter.disabled_rules[i] # d.rule_id
    /\ linter.categories = <<>>
       \/ \E i \in 1..Len(linter.categories) : linter.categories[i] = d.category

\* C26: the filter tests the minimum severity on the severity after the
\* configuration rewrite: a diagnostic that passes the other filters and is
\* given a level is kept, with the level's severity, exactly when that
\* severity is the minimum or above, whatever its built-in severity was; and
\* with an empty override configuration a kept diagnostic has its built-in
\* severity.
C26_MinSeverityAfterRewrite ==
    (linted.done /\ linted.analyzed # <<>>) =>
        LET d == linted.analyzed[1]
            level == LinterLevel(d)
        IN  /\ (level # None /\ to_severity(level) # None /\ PassesRuleFilters(d)) =>
                  IF SeverityRank(to_severity(level)) >= SeverityRank(linter.min_severity)
                  THEN linted.diagnostics = <<[d EXCEPT !.severity = to_severity(level)]>>
                  ELSE linted.diagnostics = <<>>
            /\ is_empty(linter.cargo_overrides) =>
                  linted.diagnostics \in {<<>>, <<d>>}

\* A Warning raised to Error by the overrides has been kept under a minimum
\* of Error.
C26_Witness ==
    /\ linted.done
    /\ linter.min_severity = "Error"
    /\ linted.analyzed # <<>>
    /\ linted.analyzed[1].severity = "Warning"
    /\ linted.diagnostics # <<>>
    /\ linted.diagnostics[1].severity = "Error"

\* The first entry present for a rule and a category in the order: overlay's
\* rule entry, base's rule entry, overlay's category entry, base's category
\* entry, overlay's global level, base's global level.
FirstPresent(b, overlay, rule_id, category) ==
    IF rule_id \in DOMAIN overlay.rules THEN overlay.rules[rule_id]
    ELSE IF rule_id \in DOMAIN b.rules THEN b.rules[rule_id]
    ELSE IF category \in DOMAIN overlay.categories THEN overlay.categories[category]
    ELSE IF category \in DOMAIN b.categories THEN b.categories[category]
    ELSE IF overlay.all # None THEN overlay.all
    ELSE b.all

\* C27: effective_level on the result of base.merge(overlay) is the first
\* entry present in the order overlay rule, base rule, overlay category,
\* base category, overlay global, base global.
C27_MergedPrecedence ==
    (resolved.level # NotYet /\ resolved.merged) =>
        resolved.level = FirstPresent(base, crate_level, resolved.rule_id, resolved.category)

\* A rule entry set in the base alone has won over a different category
\* entry of the overlay.
C27_Witness ==
    /\ resolved.level # NotYet
    /\ resolved.merged
    /\ resolved.rule_id \in DOMAIN base.rules
    /\ resolved.rule_id \notin DOMAIN crate_level.rules
    /\ resolved.category \in DOMAIN crate_level.categories
    /\ crate_level.categories[resolved.category] # base.rules[resolved.rule_id]
    /\ resolved.level = base.rules[resolved.rule_id]

\* C28: the step of a did_open or did_change handler on the table of an open
\* document leaves the stored version equal to the version of its
\* notification, and the stored content equal to the text of the
\* notification's last content change.
C28_StoredVersionIsNotifications ==
    [][\A i \in 1..Len(handlers) :
          /\ DidOpen(i) =>
                 documents' = Some(DocumentState(handlers[i].text[1], handlers[i].version))
          /\ (DidChange(i) /\ documents # NoValue) =>
                 /\ documents'[1].version = handlers[i].version
                 /\ handlers[i].text # NoValue =>
                        documents'[1].content = handlers[i].text[1]]_vars

\* The handler of a did_close has completed and the client has not opened
\* the document again since.
ClosedAndNotReopened ==
    \E c \in 1..Len(handlers) :
        /\ handlers[c].kind = "close"
        /\ handlers[c].at = "done"
        /\ \A j \in (c + 1)..Len(handlers) : handlers[j].kind # "open"

\* C29: once did_close has completed and no new did_open has come, the
\* document is absent from the table and the last publish for it is the
\* empty list of the close, whatever change and save handlers run or have
\* run beside it.
C29_ClosedStaysClosed ==
    ClosedAndNotReopened =>
        /\ documents = NoValue
        /\ published # <<>>
        /\ published[Len(published)] = PublishedDiagnostics(<<>>, NoValue)

\* C30: with the handlers run as cooperatively scheduled tasks and every
\* publish completing, every handler completes: none waits for ever for the
\* entry of the document, also when it arrives while analyze_document is
\* suspended in its publish.
C30_EveryHandlerCompletes ==
    \A i \in 1..MaxNotifications :
        (i <= Len(handlers)) ~> (i <= Len(handlers) /\ handlers[i].at = "done")

====
